---- MODULE Spec2Model ----
(***************************************************************************)
(* Procedural grass: the per-frame compute (blade-record synthesis) stage  *)
(* and the vertex (shaping) stage that consumes it.                        *)
(*                                                                         *)
(* Numbers.  A shader float is a fixed-point integer: the real x is the    *)
(* integer x * Scale (three decimal digits).  A product or a quotient is   *)
(* rounded toward minus infinity once, at the end of the expression the    *)
(* source writes.  Vectors handed to the normalisations are in units of    *)
(* 1e-6 (Micro), because their guards compare against 1e-6 and 1e-5.       *)
(* The IEEE special values a normalisation can produce (NaN, +Inf, -Inf)   *)
(* and a finite float whose square overflows (Huge) are distinct integers  *)
(* outside the finite range.                                               *)
(***************************************************************************)
EXTENDS Integers, Sequences, FiniteSets, TLC

VARIABLES
    mounted,            \* the passive effects of GrassWebGPU have run
    gridSize,           \* leva Grass.Size.gridSize
    patchSize,          \* leva Grass.Size.patchSize
    params,             \* leva values of the compute parameters
    computeUniformsRef, \* computeUniformsRef.current: the compute uniforms
    grassComputeRef,    \* grassComputeRef.current: dispatch size of the compute node, NoNode for null
    positions,          \* the instancedArray of root positions
    grassData,          \* the instancedArray of blade records
    sceneMeshes,        \* the grass meshes that are children of the scene
    clock,              \* clock.getElapsedTime()
    pc,                 \* position in the frame: idle, compute, shade
    pending,            \* compute invocations of the dispatch not yet run
    writes,             \* per record, the writes of the current frame
    shadeReads,         \* the records the vertex stage has read this frame
    lastRun,            \* inputs and result of the last completed dispatch on the buffers
    call,               \* the latest evaluation of a shader function
    prior               \* the evaluation before it

frameVars == <<mounted, gridSize, patchSize, params, computeUniformsRef,
               grassComputeRef, positions, grassData, sceneMeshes, clock, pc,
               pending, writes, shadeReads, lastRun>>
vars == <<mounted, gridSize, patchSize, params, computeUniformsRef,
          grassComputeRef, positions, grassData, sceneMeshes, clock, pc,
          pending, writes, shadeReads, lastRun, call, prior>>

-----------------------------------------------------------------------------
(* Fixed-point arithmetic *)

Scale == 1000
Micro == 1000000
Pi == 3142
TwoPi == 6283
HalfPi == 1571

NaN == 2000000001
PInf == 2000000000
NInf == -2000000000
Huge == 1500000000

Abs(x) == IF x < 0 THEN -x ELSE x
Min(a, b) == IF a < b THEN a ELSE b
Max(a, b) == IF a > b THEN a ELSE b
Sign(x) == IF x < 0 THEN -1 ELSE IF x > 0 THEN 1 ELSE 0
Clamp(x, lo, hi) == Min(Max(x, lo), hi)
Mul(a, b) == (a * b) \div Scale
Div(a, b) == (a * Scale) \div b
Fract(x) == x % Scale
Floor(x) == (x \div Scale) * Scale
Mix(a, b, t) == a + Mul(b - a, t)
Step(edge, x) == IF x < edge THEN 0 ELSE Scale

RECURSIVE SqrtSearch(_, _, _)
SqrtSearch(n, lo, hi) ==
    IF lo >= hi THEN lo
    ELSE LET mid == (lo + hi + 1) \div 2
         IN  IF mid * mid <= n THEN SqrtSearch(n, mid, hi)
             ELSE SqrtSearch(n, lo, mid - 1)

\* floor of the square root of an integer 0 <= n < 2^31
ISqrt(n) == SqrtSearch(n, 0, 46340)

\* sqrt of a fixed-point number, as a fixed-point number
Sqrt(x) == ISqrt(x * Scale)

\* sin of a fixed-point angle (Bhaskara's rational approximation on [0, Pi])
SinHalf(r) == (16 * r * (Pi - r)) \div ((5 * Pi * Pi - 4 * r * (Pi - r)) \div Scale)
Sin(x) ==
    LET r == x % TwoPi
    IN  IF r <= Pi THEN SinHalf(r) ELSE -SinHalf(Min(r - Pi, Pi))
Cos(x) == Sin(x + HalfPi)

\* atan(y, x) of fixed-point numbers, in (-Pi, Pi]
Atan2(y, x) ==
    IF x = 0 /\ y = 0 THEN 0
    ELSE LET ax == Abs(x)
             ay == Abs(y)
             a  == Div(Min(ax, ay), Max(ax, ay))
             r0 == Mul(a, 785) + Mul(273, Mul(a, Scale - a))
             r1 == IF ay > ax THEN HalfPi - r0 ELSE r0
             r2 == IF x < 0 THEN Pi - r1 ELSE r1
         IN  IF y < 0 THEN -r2 ELSE r2

\* smoothstep(edge0, edge1, x) for edge0 < edge1
smoothstep(edge0, edge1, x) ==
    LET t == Clamp(Div(x - edge0, edge1 - edge0), 0, Scale)
    IN  (t * t * (3 * Scale - 2 * t)) \div (Scale * Scale)

-----------------------------------------------------------------------------
(* Presence: fade-out factor by distance from the clump centre *)

calculatePresenceInverted(distToCenter, clumpRadius) ==
    LET r == Clamp(Div(distToCenter, clumpRadius), 0, Scale)
        t == Clamp(Div(r - 700, Scale - 700), 0, Scale)
    IN  (t * t * (3 * Scale - 2 * t)) \div (Scale * Scale)

calculatePresence(distToCenter, clumpRadius) ==
    LET r == Clamp(Div(distToCenter, clumpRadius), 0, Scale)
        t == Clamp(Div(r - 700, Scale - 700), 0, Scale)
        smoothstepVal == (t * t * (3 * Scale - 2 * t)) \div (Scale * Scale)
    IN  Scale - smoothstepVal

-----------------------------------------------------------------------------
(* Normalisation of 2D vectors.  A vector is <<x, y>> in Micro units.      *)

IsSpecial(x) == x \in {NaN, PInf, NInf}
IsFiniteVec(v) == ~IsSpecial(v[1]) /\ ~IsSpecial(v[2])

\* The largest component whose square, summed with another, fits the
\* integers of the model; a larger finite component has the square BigSquare.
SquareLimit == 30000
BigSquare == 1900000000

\* x * x in float: a Huge operand overflows to +Inf
FSquare(x) ==
    IF Abs(x) = Huge THEN PInf
    ELSE IF Abs(x) > SquareLimit THEN BigSquare ELSE x * x
FAdd(a, b) ==
    IF a = PInf \/ b = PInf THEN PInf
    ELSE IF a >= BigSquare \/ b >= BigSquare THEN BigSquare ELSE a + b
\* dot(v, v), in Micro^2 units
Dot2(v) == FAdd(FSquare(v[1]), FSquare(v[2]))

\* The factor <<num, den>> that brings a vector into the range where the
\* integer square root keeps three digits (normalisation is scale invariant).
Rescale(v) ==
    LET m == Max(Abs(v[1]), Abs(v[2]))
    IN  IF m <= 30 THEN <<1000, 1>>
        ELSE IF m <= 300 THEN <<100, 1>>
        ELSE IF m <= 3000 THEN <<10, 1>>
        ELSE IF m <= SquareLimit THEN <<1, 1>>
        ELSE IF m <= 300000 THEN <<1, 10>>
        ELSE IF m <= 3000000 THEN <<1, 100>>
        ELSE <<1, 1000>>

Rescaled(x, v) == (x * Rescale(v)[1]) \div Rescale(v)[2]

\* One component of v * inversesqrt(m2), v / sqrt(m2), v / length(v):
\* the quotient as a fixed-point number, with the IEEE results of a zero or
\* an infinite m2.
ScaleComponent(x, v, m2) ==
    IF m2 = PInf THEN 0
    ELSE IF m2 = 0 THEN (IF x = 0 THEN NaN ELSE IF x > 0 THEN PInf ELSE NInf)
    ELSE (Rescaled(x, v) * Scale)
            \div ISqrt(Rescaled(v[1], v) * Rescaled(v[1], v)
                       + Rescaled(v[2], v) * Rescaled(v[2], v))

Normalized(v) == <<ScaleComponent(v[1], v, Dot2(v)), ScaleComponent(v[2], v, Dot2(v))>>

Fallback == <<Scale, 0>>

\* m2 > 1e-6, m2 in Micro^2 units
GreaterThan1em6(m2) == m2 = PInf \/ m2 > Micro
\* len > 1e-5 and len > 1e-6, decided on the squared length
LenGreaterThan1em5(m2) == m2 = PInf \/ m2 > 100
LenGreaterThan1em6(m2) == m2 = PInf \/ m2 > 1

safeNormalizeUnguarded(v) == Normalized(v)

\* GLSL safeNormalize (compute and vertex shader) and TSL safeNormalize
safeNormalize(v) ==
    IF GreaterThan1em6(Dot2(v)) THEN Normalized(v) ELSE Fallback

\* TSL safeNormalize of the compute function: select() evaluates both
\* operands, the normalised vector also when m2 is 0
safeNormalizeTSL(v) ==
    LET m2 == Dot2(v)
        normalized == Normalized(v)
        fallback == Fallback
    IN  IF GreaterThan1em6(m2) THEN normalized ELSE fallback

toCenterSquaredGuard(dir) ==
    IF GreaterThan1em6(Dot2(dir)) THEN Normalized(dir) ELSE Fallback

\* calculateToCenter's normalisation of dir = clumpCenterWorld - worldXZ
normalizeToCenter(dir) ==
    IF LenGreaterThan1em5(Dot2(dir)) THEN Normalized(dir) ELSE Fallback

\* TSL shaping stage: safeNormalize2D
safeNormalize2D(v) ==
    IF LenGreaterThan1em6(Dot2(v)) THEN Normalized(v) ELSE Fallback

-----------------------------------------------------------------------------
(* Compute stage: the blade record of one instance (createGrassCompute)    *)

\* sin(x) * 43758.5453, x a fixed-point sine
HashMul(s) == s * 43758 + (s * 545) \div Scale

\* dot(p, vec2(a, b)) with a, b given in tenths
Dot10(p, a, b) == (p[1] * a + p[2] * b) \div 10

hash11(x) == Fract(HashMul(Sin(37 * (x % TwoPi))))

hash21(p) == <<hash11(Dot10(p, 1271, 3117)), hash11(Dot10(p, 2695, 1833))>>

hash2(p) == <<Fract(HashMul(Sin(Dot10(p, 1271, 3117)))),
              Fract(HashMul(Sin(Dot10(p, 2695, 1833))))>>

\* mx_fractal_noise_float of three/tsl: a deterministic value in [-1, 1]
mx_fractal_noise_float(p) == 2 * hash11(Dot10(p, 130, 782)) - Scale

normalizeAngle(angle) == Atan2(Sin(angle), Cos(angle))

\* minDist starts at 1e9, above every squared distance; here the largest
\* squared distance in Scale^2 units is below this value
MinDistInit == 2000000000

NeighbourhoodForward == <<<<0, 0>>, <<1, 0>>, <<0, 1>>, <<1, 1>>>>

\* the 3x3 neighbourhood in the order of the two loops (j outer, i inner)
Neighbourhood ==
    <<<<-1, -1>>, <<0, -1>>, <<1, -1>>,
      <<-1, 0>>,  <<0, 0>>,  <<1, 0>>,
      <<-1, 1>>,  <<0, 1>>,  <<1, 1>>>>

SeedDist2Unjittered(cell, neighborCell) ==
    LET diff == <<cell[1] - neighborCell[1], cell[2] - neighborCell[2]>>
    IN  diff[1] * diff[1] + diff[2] * diff[2]

\* squared distance, in Scale^2 units, of cell to the jittered seed of neighborCell
SeedDist2(cell, neighborCell) ==
    LET seed == hash2(neighborCell)
        seedCoord == <<neighborCell[1] + seed[1], neighborCell[2] + seed[2]>>
        diff == <<cell[1] - seedCoord[1], cell[2] - seedCoord[2]>>
    IN  diff[1] * diff[1] + diff[2] * diff[2]

RECURSIVE ClumpSearchLastWins(_, _, _, _)
ClumpSearchLastWins(cell, baseCell, k, best) ==
    IF k > Len(Neighbourhood) THEN best
    ELSE LET neighborCell == <<baseCell[1] + Neighbourhood[k][1] * Scale,
                               baseCell[2] + Neighbourhood[k][2] * Scale>>
             d2 == SeedDist2(cell, neighborCell)
         IN  ClumpSearchLastWins(cell, baseCell, k + 1,
                                 IF d2 <= best.minDist
                                 THEN [minDist |-> d2, bestCellId |-> neighborCell]
                                 ELSE best)

RECURSIVE ClumpSearch(_, _, _, _)
ClumpSearch(cell, baseCell, k, best) ==
    IF k > Len(Neighbourhood) THEN best
    ELSE LET neighborCell == <<baseCell[1] + Neighbourhood[k][1] * Scale,
                               baseCell[2] + Neighbourhood[k][2] * Scale>>
             d2 == SeedDist2(cell, neighborCell)
         IN  ClumpSearch(cell, baseCell, k + 1,
                         IF d2 < best.minDist
                         THEN [minDist |-> d2, bestCellId |-> neighborCell]
                         ELSE best)

getClumpInfo(worldXZ, u) ==
    LET cell == <<Div(worldXZ[1], u.uClumpSize), Div(worldXZ[2], u.uClumpSize)>>
        baseCell == <<Floor(cell[1]), Floor(cell[2])>>
        best == ClumpSearch(cell, baseCell, 1,
                            [minDist |-> MinDistInit, bestCellId |-> <<0, 0>>])
    IN  [distToCenter |-> Mul(ISqrt(best.minDist), u.uClumpSize),
         cellId |-> best.bestCellId]

calculateToCenter(worldXZ, cellId, u) ==
    LET clumpSeed == hash2(cellId)
        clumpCenterWorld == <<Mul(cellId[1] + clumpSeed[1], u.uClumpSize),
                              Mul(cellId[2] + clumpSeed[2], u.uClumpSize)>>
        dir == <<clumpCenterWorld[1] - worldXZ[1], clumpCenterWorld[2] - worldXZ[2]>>
    IN  normalizeToCenter(<<dir[1] * Scale, dir[2] * Scale>>)

getClumpParams(cellId, u) ==
    LET c1 == hash21(<<cellId[1] * 11, cellId[2] * 11>>)
        c2 == hash21(<<cellId[1] * 23, cellId[2] * 23>>)
        typeTrend == mx_fractal_noise_float(<<Mul(cellId[1], u.uTypeTrendScale),
                                              Mul(cellId[2], u.uTypeTrendScale)>>)
    IN  [height |-> Mix(u.uBladeHeightMin, u.uBladeHeightMax, c1[1]),
         width  |-> Mix(u.uBladeWidthMin, u.uBladeWidthMax, c1[2]),
         bend   |-> Mix(u.uBendAmountMin, u.uBendAmountMax, c2[1]),
         type   |-> Mul(typeTrend, 500) + 500]

getBladeParamsOffset(seed, clumpParams, u) ==
    LET h1 == hash21(<<seed[1] * 13, seed[2] * 13>>)
        h2 == hash21(<<seed[1] * 29, seed[2] * 29>>)
        r  == u.uBladeRandomness
    IN  [height |-> Mul(clumpParams.height, Mix(0 - r[1], r[1], h1[1])),
         width  |-> Mul(clumpParams.width, Mix(0 - r[2], r[2], h1[2])),
         bend   |-> Mul(clumpParams.bend, Mix(0 - r[3], r[3], h2[1])),
         type   |-> clumpParams.type]

getBladeParams(seed, clumpParams, u) ==
    LET h1 == hash21(<<seed[1] * 13, seed[2] * 13>>)
        h2 == hash21(<<seed[1] * 29, seed[2] * 29>>)
        r  == u.uBladeRandomness
    IN  [height |-> Mul(clumpParams.height, Mix(Scale - r[1], Scale + r[1], h1[1])),
         width  |-> Mul(clumpParams.width, Mix(Scale - r[2], Scale + r[2], h1[2])),
         bend   |-> Mul(clumpParams.bend, Mix(Scale - r[3], Scale + r[3], h2[1])),
         type   |-> clumpParams.type]

calculateBaseAngle(toCenter, cellId, perBladeHash01, u) ==
    LET clumpAngle == Mul(Atan2(toCenter[2], toCenter[1]), u.uCenterYaw)
        randomOffset == Mul(perBladeHash01 - 500, u.uBladeYaw)
        clumpHash == hash11(Dot10(cellId, 97, 31))
        clumpYaw == Mul(clumpHash - 500, u.uClumpYaw)
    IN  clumpAngle + randomOffset + clumpYaw

applyWindFacingUnscaled(baseAngle, windDir, windStrength01, u) ==
    LET windAngle == Atan2(windDir[2], windDir[1])
        angleDiff == Atan2(Sin(windAngle - baseAngle), Cos(windAngle - baseAngle))
    IN  baseAngle + Mul(angleDiff, u.uWindFacing)

applyWindFacing(baseAngle, windDir, windStrength01, u) ==
    LET windAngle == Atan2(windDir[2], windDir[1])
        angleDiff == Atan2(Sin(windAngle - baseAngle), Cos(windAngle - baseAngle))
    IN  baseAngle + Mul(angleDiff, Mul(u.uWindFacing, windStrength01))

applyWindFacingAndNormalize(baseAngle, windDir, windStrength01, u) ==
    LET facingAngle == applyWindFacing(baseAngle, windDir, windStrength01, u)
    IN  Div(normalizeAngle(facingAngle) + Pi, TwoPi)

\* remapClamp(noise, -1, 1, 0, uWindStrength)
calculateWindStrength(worldXZ, u) ==
    LET windDirNorm == safeNormalizeTSL(u.uWindDir)
        windUv == <<Mul(worldXZ[1], u.uWindScale)
                      + Mul(Mul(windDirNorm[1], u.uWindTime), u.uWindSpeed),
                    Mul(worldXZ[2], u.uWindScale)
                      + Mul(Mul(windDirNorm[2], u.uWindTime), u.uWindSpeed)>>
        windStrength01 == mx_fractal_noise_float(windUv)
        t == Clamp(Div(windStrength01 + Scale, 2 * Scale), 0, Scale)
    IN  Mul(t, u.uWindStrength)

\* the record the compute function derives for the instance at instancePos
BladeRecord(instancePos, u) ==
    LET worldXZ == <<instancePos[1], instancePos[3]>>
        clumpInfo == getClumpInfo(worldXZ, u)
        cellId == clumpInfo.cellId
        toCenter == calculateToCenter(worldXZ, cellId, u)
        presence == calculatePresence(clumpInfo.distToCenter, u.uClumpRadius)
        clumpParams == getClumpParams(cellId, u)
        bladeParams == getBladeParams(worldXZ, clumpParams, u)
        perBladeHash01 == hash11((worldXZ[1] * 37 + worldXZ[2] * 17))
        lodSeed01 == hash11(Dot10(worldXZ, 193, 537))
        clumpSeed01 == hash11(Dot10(cellId, 473, 617))
        baseAngle == calculateBaseAngle(toCenter, cellId, perBladeHash01, u)
        windStrength == calculateWindStrength(worldXZ, u)
        windDirNorm == safeNormalizeTSL(u.uWindDir)
        facingAngle01 == applyWindFacingAndNormalize(baseAngle, windDirNorm, windStrength, u)
    IN  [bladeHeight |-> bladeParams.height,
         bladeWidth |-> bladeParams.width,
         bladeBend |-> bladeParams.bend,
         bladeType |-> bladeParams.type,
         toCenter |-> toCenter,
         presence |-> presence,
         clumpSeed01 |-> clumpSeed01,
         facingAngle01 |-> facingAngle01,
         perBladeHash01 |-> perBladeHash01,
         windStrength01 |-> windStrength,
         lodSeed01 |-> lodSeed01]

\* the angle calculateBaseAngle returns for the instance at instancePos,
\* before the wind is applied
baseAngleOf(instancePos, u) ==
    LET worldXZ == <<instancePos[1], instancePos[3]>>
        cellId == getClumpInfo(worldXZ, u).cellId
        toCenter == calculateToCenter(worldXZ, cellId, u)
        perBladeHash01 == hash11((worldXZ[1] * 37 + worldXZ[2] * 17))
    IN  calculateBaseAngle(toCenter, cellId, perBladeHash01, u)

\* GLSL calculateWindStrength: clamp(fbm2(windUv, 0.0) * uWindStrength, 0.0, 1.0)
calculateWindStrengthGLSL(worldXZ, u) ==
    LET windDir == safeNormalize(u.uWindDir)
        windUv == <<Mul(worldXZ[1], u.uWindScale)
                      + Mul(Mul(windDir[1], u.uWindTime), u.uWindSpeed),
                    Mul(worldXZ[2], u.uWindScale)
                      + Mul(Mul(windDir[2], u.uWindTime), u.uWindSpeed)>>
        windStrength01 == mx_fractal_noise_float(windUv)
    IN  Clamp(Mul(windStrength01, u.uWindStrength), 0, Scale)

\* grassDataArray.fill(0)
ZeroRecord ==
    [bladeHeight |-> 0, bladeWidth |-> 0, bladeBend |-> 0, bladeType |-> 0,
     toCenter |-> <<0, 0>>, presence |-> 0, clumpSeed01 |-> 0,
     facingAngle01 |-> 0, perBladeHash01 |-> 0, windStrength01 |-> 0,
     lodSeed01 |-> 0]

-----------------------------------------------------------------------------
(* The component GrassWebGPU: allocation, uniform update, frame callback   *)

MaxGrid == 2
MaxClock == 1

\* gridSize values of the control, scaled down to grids of a few blades
GridSizes == 1..MaxGrid
\* patchSize: initialPatchSize = DEFAULT_PATCH_SIZE
DEFAULT_PATCH_SIZE == 20
PatchSizes == {5, DEFAULT_PATCH_SIZE}
\* clock advance between two frames, in seconds: 0 is a repeated clock value
FrameDeltas == {0, 1}

NoNode == 0
\* useRef<Record<string, any>>({})
NoUniforms == [name \in {} |-> 0]

DefaultParams ==
    [bladeHeightMin |-> 400, bladeHeightMax |-> 800,
     bladeWidthMin |-> 10, bladeWidthMax |-> 50,
     bendAmountMin |-> 200, bendAmountMax |-> 600,
     bladeRandomness |-> <<300, 300, 200>>,
     clumpSize |-> 800, clumpRadius |-> 1500, typeTrendScale |-> 100,
     centerYaw |-> 1000, bladeYaw |-> 1200, clumpYaw |-> 500,
     windDirX |-> 1000000, windDirZ |-> 0,
     windSpeed |-> 600, windStrength |-> 350, windScale |-> 250,
     windFacing |-> 600]

\* the controls a user moves in the model, and the values they are moved to
Controls ==
    [windStrength |-> {350, 2000}]

\* Math.sin(seed) * 10000, minus its floor: the decimals of the sine from the
\* fifth on.  seed is in units of 1e-4.
SinDecimals(r) ==
    LET num == 16 * r * (Pi - r)
        den == (5 * Pi * Pi - 4 * r * (Pi - r)) \div Scale
        d1  == ((num % den) * Scale) \div den
        d2  == ((((num % den) * Scale) % den) * Scale) \div den
    IN  (d1 % 100) * 10 + d2 \div 100

seededRandom(seed) ==
    LET r == (seed \div 10) % TwoPi
    IN  IF r <= Pi THEN SinDecimals(r)
        ELSE (Scale - SinDecimals(Min(r - Pi, Pi))) % Scale

PositionOfUncentred(x, z, g, p) ==
    LET fx == (x * Scale) \div g - 500
        fz == (z * Scale) \div g - 500
        seed == (x * 7919 + z * 7919)
        jitterX == Mul(seededRandom(seed), 200)
        jitterZ == Mul(seededRandom(seed + 10000), 200)
    IN  <<fx * p + jitterX, 0, fz * p + jitterZ>>

\* the position written for grid cell (x, z)
PositionOf(x, z, g, p) ==
    LET fx == (x * Scale) \div g - 500
        fz == (z * Scale) \div g - 500
        seed == (x * 7919 + z * 7919)
        jitterX == Mul(seededRandom(seed) - 500, 200)
        jitterZ == Mul(seededRandom(seed + 10000) - 500, 200)
    IN  <<fx * p + jitterX, 0, fz * p + jitterZ>>

\* createGrassGeometry: the instance iteration (x, z) of its loops appends
\* to instanceIds and offsets
geometryInstance(x, z, g, p) ==
    LET fx == (x * Scale) \div g - 500
        fz == (z * Scale) \div g - 500
        seed == (x * 7919 + z * 7919)
        jitterX == Mul(seededRandom(seed) - 500, 200)
        jitterZ == Mul(seededRandom(seed + 10000) - 500, 200)
    IN  [instanceId |-> x * g + z,
         instanceOffset |-> <<fx * p + jitterX, 0, fz * p + jitterZ>>]

\* createPositionTexture: the four floats iteration idx of its loops appends
\* to data (x = idx / gridSize, z = idx mod gridSize)
textureData(idx, g, p) ==
    LET x == idx \div g
        z == idx % g
        fx == (x * Scale) \div g - 500
        fz == (z * Scale) \div g - 500
        seed == (x * 7919 + z * 7919)
        jitterX == Mul(seededRandom(seed) - 500, 200)
        jitterZ == Mul(seededRandom(seed + 10000) - 500, 200)
    IN  <<fx * p + jitterX, 0, fz * p + jitterZ, 0>>

\* the texel (coord[1], coord[2]) of the position texture, a DataTexture of
\* width gridSize over data
positionTexel(coord, g, p) ==
    textureData(coord[2] * g + coord[1], g, p)

texelCoordTransposed(instanceId, size) == <<instanceId \div size, instanceId % size>>

\* section 2 of main: the texel of the record of instance instanceId
texelCoordOf(instanceId, size) == <<instanceId % size, instanceId \div size>>

\* positionArray after the two loops: id = x * gridSize + z
PositionArray(g, p) ==
    [id \in 0..(g * g - 1) |-> PositionOf(id \div g, id % g, g, p)]

\* the uniforms createGrassCompute creates from the initial values
createUniforms(initialValues) ==
    [uBladeHeightMin |-> initialValues.bladeHeightMin,
     uBladeHeightMax |-> initialValues.bladeHeightMax,
     uBladeWidthMin |-> initialValues.bladeWidthMin,
     uBladeWidthMax |-> initialValues.bladeWidthMax,
     uBendAmountMin |-> initialValues.bendAmountMin,
     uBendAmountMax |-> initialValues.bendAmountMax,
     uBladeRandomness |-> initialValues.bladeRandomness,
     uClumpSize |-> initialValues.clumpSize,
     uClumpRadius |-> initialValues.clumpRadius,
     uCenterYaw |-> initialValues.centerYaw,
     uBladeYaw |-> initialValues.bladeYaw,
     uClumpYaw |-> initialValues.clumpYaw,
     uTypeTrendScale |-> initialValues.typeTrendScale,
     uWindTime |-> 0,
     uWindScale |-> initialValues.windScale,
     uWindSpeed |-> initialValues.windSpeed,
     uWindStrength |-> initialValues.windStrength,
     uWindDir |-> <<initialValues.windDirX, initialValues.windDirZ>>,
     uWindFacing |-> initialValues.windFacing]

updateUniformsStale(uniforms, p) == uniforms

\* the effect on [grassParams]: every uniform but uWindTime is assigned
updateUniforms(uniforms, p) ==
    [createUniforms(p) EXCEPT !.uWindTime = uniforms.uWindTime]

\* the writes of invocation instanceIndex: element and record
computeFnCached(instanceIndex, data, pos, u) ==
    IF data[instanceIndex] # ZeroRecord THEN {}
    ELSE {[elem |-> instanceIndex, rec |-> BladeRecord(pos[instanceIndex], u)]}

computeFnSharedElement(instanceIndex, data, pos, u) ==
    {[elem |-> instanceIndex \div 2, rec |-> BladeRecord(pos[instanceIndex], u)]}

computeFnNeighbour(instanceIndex, data, pos, u) ==
    {[elem |-> instanceIndex,
      rec |-> [BladeRecord(pos[instanceIndex], u) EXCEPT
                 !.presence = (@ + data[(instanceIndex + 1) % Cardinality(DOMAIN data)].presence) \div 2]]}

computeFn(instanceIndex, data, pos, u) ==
    {[elem |-> instanceIndex, rec |-> BladeRecord(pos[instanceIndex], u)]}

\* the buffer after a set of writes
ApplyWrites(data, ws) ==
    [j \in DOMAIN data |->
        IF \E w \in ws : w.elem = j
        THEN (CHOOSE w \in ws : w.elem = j).rec
        ELSE data[j]]

CountWrites(counts, ws) ==
    [j \in DOMAIN counts |-> counts[j] + Cardinality({w \in ws : w.elem = j})]

ZeroData(n) == [i \in 0..(n - 1) |-> ZeroRecord]
NoWrites(n) == [i \in 0..(n - 1) |-> 0]

useFrameNeverDispatches == TRUE

\* if (!grassComputeRef.current || !computeUniformsRef.current) return
\* (computeUniformsRef.current is always an object, hence truthy)
useFrameReturnsEarly == grassComputeRef = NoNode

FrameInit ==
    /\ mounted = FALSE
    /\ gridSize \in GridSizes
    /\ patchSize = DEFAULT_PATCH_SIZE
    /\ params = DefaultParams
    /\ computeUniformsRef = NoUniforms
    /\ grassComputeRef = NoNode
    /\ positions = [i \in {} |-> <<0, 0, 0>>]
    /\ grassData = ZeroData(0)
    /\ sceneMeshes = {}
    /\ clock = 0
    /\ pc = "idle"
    /\ pending = {}
    /\ writes = NoWrites(0)
    /\ shadeReads = ZeroData(0)
    /\ lastRun = [valid |-> FALSE]

NoCall == [fn |-> "none"]

Init ==
    /\ FrameInit
    /\ call = NoCall
    /\ prior = NoCall

\* new THREE.InstancedMesh(bladeGeometry, material, grassBlades)
MeshOf(g, p) == [count |-> g * g, gridSize |-> g, patchSize |-> p]

sceneRemoveNothing(scene, mesh) == scene

\* scene.remove(mesh), the cleanup of the effect on [gridSize, patchSize]
sceneRemove(scene, mesh) == scene \ {mesh}

\* the effect on [gridSize, patchSize], run on the scene its previous cleanup left
Allocate(g, p, scene) ==
    /\ positions' = PositionArray(g, p)
    /\ grassData' = ZeroData(g * g)
    /\ grassComputeRef' = g * g
    /\ sceneMeshes' = scene \cup {MeshOf(g, p)}
    /\ writes' = NoWrites(g * g)
    /\ lastRun' = [valid |-> FALSE]

\* first commit: both effects run, in the order of their declaration
Mount ==
    /\ pc = "idle"
    /\ ~mounted
    /\ mounted' = TRUE
    /\ Allocate(gridSize, patchSize, sceneMeshes)
    /\ computeUniformsRef' = updateUniforms(createUniforms(params), params)
    /\ UNCHANGED <<gridSize, patchSize, params, clock, pc, pending, shadeReads,
                   call, prior>>

\* a control of the compute parameters is moved: the effect on [grassParams]
SetParam ==
    /\ pc = "idle"
    /\ mounted
    /\ \E name \in DOMAIN Controls : \E v \in Controls[name] :
          /\ params' = [params EXCEPT ![name] = v]
          /\ computeUniformsRef' = updateUniforms(computeUniformsRef, params')
    /\ UNCHANGED <<mounted, gridSize, patchSize, grassComputeRef, positions,
                   grassData, sceneMeshes, clock, pc, pending, writes,
                   shadeReads, lastRun, call, prior>>

\* gridSize or patchSize is moved: cleanup, allocation effect, update effect
SetSize ==
    /\ pc = "idle"
    /\ mounted
    /\ \E g \in GridSizes, p \in PatchSizes :
          /\ <<g, p>> # <<gridSize, patchSize>>
          /\ gridSize' = g
          /\ patchSize' = p
          /\ Allocate(g, p, sceneRemove(sceneMeshes, MeshOf(gridSize, patchSize)))
    /\ computeUniformsRef' = updateUniforms(createUniforms(params), params)
    /\ UNCHANGED <<mounted, params, clock, pc, pending, shadeReads, call,
                   prior>>


\* useFrame callback of one frame, dt seconds after the previous one
UseFrame ==
    /\ pc = "idle"
    /\ \E dt \in FrameDeltas :
          /\ clock + dt <= MaxClock
          /\ clock' = clock + dt
    /\ IF useFrameReturnsEarly
       THEN /\ pending' = {}
            /\ UNCHANGED computeUniformsRef
       ELSE /\ computeUniformsRef' =
                  [computeUniformsRef EXCEPT !.uWindTime = clock' * Scale]
            /\ pending' = 0..(grassComputeRef - 1)
    /\ writes' = NoWrites(Cardinality(DOMAIN grassData))
    /\ pc' = "compute"
    /\ UNCHANGED <<mounted, gridSize, patchSize, params, grassComputeRef,
                   positions, grassData, sceneMeshes, shadeReads, lastRun,
                   call, prior>>

\* one invocation of the compute function, in any order
Invoke ==
    /\ pc = "compute"
    /\ \E i \in pending :
          LET ws == computeFn(i, grassData, positions, computeUniformsRef)
          IN  /\ grassData' = ApplyWrites(grassData, ws)
              /\ writes' = CountWrites(writes, ws)
              /\ pending' = pending \ {i}
    /\ UNCHANGED <<mounted, gridSize, patchSize, params, computeUniformsRef,
                   grassComputeRef, positions, sceneMeshes, clock, pc,
                   shadeReads, lastRun, call, prior>>

\* the instances the meshes of the scene draw
DrawnInstances == UNION {0..(m.count - 1) : m \in sceneMeshes}

\* the render pass of the frame: the vertex stage reads the record of every
\* drawn instance; it is submitted after the dispatch
Render ==
    /\ pc = "compute"
    /\ pending = {}
    /\ shadeReads' = [i \in DrawnInstances |-> grassData[i]]
    /\ pc' = "shade"
    /\ UNCHANGED <<mounted, gridSize, patchSize, params, computeUniformsRef,
                   grassComputeRef, positions, grassData, sceneMeshes, clock,
                   pending, writes, lastRun, call, prior>>

DispatchInputs == [uniforms |-> computeUniformsRef, positions |-> positions]

EndFrame ==
    /\ pc = "shade"
    /\ pc' = "idle"
    /\ shadeReads' = ZeroData(0)
    /\ lastRun' = IF grassComputeRef = NoNode THEN lastRun
                  ELSE [valid |-> TRUE, inputs |-> DispatchInputs, data |-> grassData]
    /\ UNCHANGED <<mounted, gridSize, patchSize, params, computeUniformsRef,
                   grassComputeRef, positions, grassData, sceneMeshes, clock,
                   pending, writes, call, prior>>

Next ==
    \/ Mount
    \/ SetParam
    \/ SetSize
    \/ UseFrame
    \/ Invoke
    \/ Render
    \/ EndFrame

Spec == Init /\ [][Next]_vars

\* the buffer a dispatch of all n invocations leaves, started on data
RECURSIVE Dispatch(_, _, _, _, _)
Dispatch(data, pos, u, i, n) ==
    IF i >= n THEN data
    ELSE Dispatch(ApplyWrites(data, computeFn(i, data, pos, u)), pos, u, i + 1, n)

FreshDispatch == Dispatch(ZeroData(Cardinality(DOMAIN positions)), positions,
                          computeUniformsRef, 0, Cardinality(DOMAIN positions))

Dispatched == pc = "shade" /\ grassComputeRef # NoNode

-----------------------------------------------------------------------------
(* Properties of the frame loop *)

\* C1: synthesis is deterministic.  When a dispatch has completed with the
\* same positions, uniforms and elapsed time as the dispatch before it, every
\* field of every record equals the value the earlier dispatch produced.
C1_SynthesisDeterministic ==
    (Dispatched /\ lastRun.valid /\ lastRun.inputs = DispatchInputs)
        => \A i \in DOMAIN grassData : grassData[i] = lastRun.data[i]

\* two dispatches with equal inputs over more than one blade have completed
C1_Witness ==
    /\ Dispatched
    /\ lastRun.valid
    /\ lastRun.inputs = DispatchInputs
    /\ Cardinality(DOMAIN grassData) > 1
    /\ grassData = lastRun.data
    /\ \A i \in DOMAIN grassData : grassData[i] # ZeroRecord

\* C2: when the vertex stage of a frame reads blade records, the dispatch of
\* that frame has completed, and every record read was written by it: the
\* zero-filled buffer of the allocation is never read.
C2_ComputeBeforeShading ==
    (DOMAIN shadeReads # {})
        => /\ pc = "shade"
           /\ pending = {}
           /\ \A i \in DOMAIN shadeReads :
                 /\ writes[i] >= 1
                 /\ shadeReads[i] = grassData[i]
                 /\ shadeReads[i] # ZeroRecord

\* the first frame after an allocation is being drawn
C2_Witness ==
    /\ pc = "shade"
    /\ ~lastRun.valid
    /\ Cardinality(DOMAIN shadeReads) > 1
    /\ \A i \in DOMAIN shadeReads : writes[i] = 1 /\ shadeReads[i] # ZeroRecord

\* C3: within a frame, the invocations that have run have each written their
\* own element once and no other element; at the end of the dispatch every
\* record has been written exactly once.
C3_WrittenExactlyOnce ==
    (grassComputeRef # NoNode /\ pc \in {"compute", "shade"})
        => \A i \in DOMAIN writes : writes[i] = (IF i \in pending THEN 0 ELSE 1)

\* a dispatch over several blades, not the first on its buffer, is partly done
C3_Witness ==
    /\ pc = "compute"
    /\ lastRun.valid
    /\ pending # {}
    /\ Cardinality(DOMAIN writes) > Cardinality(pending) + 1
    /\ \A i \in DOMAIN writes \ pending : writes[i] = 1

\* C4: the buffer a completed dispatch leaves equals the buffer the same
\* dispatch leaves when started on a freshly allocated (zero) buffer,
\* whatever frames came before.
C4_HistoryFree == Dispatched => grassData = FreshDispatch

\* a dispatch has completed on a buffer that held the different result of an
\* earlier dispatch with other inputs
C4_Witness ==
    /\ Dispatched
    /\ lastRun.valid
    /\ lastRun.inputs # DispatchInputs
    /\ lastRun.data # grassData
    /\ grassData = FreshDispatch

-----------------------------------------------------------------------------
(* Shaping stage: LOD fold, width taper, wind distance falloff *)

BLADE_SEGMENTS == 14

\* the results an operation with an undefined result can have
UndefinedFloat == {0, Scale, NaN}

\* a * b and 1.0 - a with NaN operands
FMul(a, b) == IF a = NaN \/ b = NaN THEN NaN ELSE Mul(a, b)
OneMinus(a) == IF a = NaN THEN NaN ELSE Scale - a

\* smoothstep(edge0, edge1, x); the result is undefined when edge0 >= edge1
smoothstepOrUndefined(edge0, edge1, x, undef) ==
    IF edge0 < edge1 THEN smoothstep(edge0, edge1, x) ELSE undef

\* uv.y of vertex row r of PlaneGeometry(1, 1, 1, BLADE_SEGMENTS)
RowT(r) == (r * Scale) \div BLADE_SEGMENTS

foldedRowHalved(vertexRow) == Floor(Div(vertexRow, 2 * Scale))

\* floor(vertexRow / 2.0) * 2.0
foldedRowOf(vertexRow) == Mul(Floor(Div(vertexRow, 2 * Scale)), 2 * Scale)

calculateLODPositionTBlended(shapeT, lodWeight) ==
    LET totalSegments == BLADE_SEGMENTS * Scale
        vertexRow == Floor(Mul(shapeT, totalSegments) + Scale \div 2)
        foldedRow == foldedRowOf(vertexRow)
    IN  Div(Mix(vertexRow, foldedRow, Clamp(lodWeight, 0, Scale)), totalSegments)

\* calculateLODPositionT, from its lodWeight on
calculateLODPositionT(shapeT, lodWeight) ==
    LET totalSegments == BLADE_SEGMENTS * Scale
        vertexRow == Floor(Mul(shapeT, totalSegments) + Scale \div 2)
        foldedRow == foldedRowOf(vertexRow)
        positionT == Div(Mix(vertexRow, foldedRow, Step(Scale \div 2, lodWeight)),
                         totalSegments)
    IN  positionT

\* the exponents for which Pow has a value at every base
HalfPowers == {0, 500, 1000, 1500, 2000}

\* pow(x, y) for 0 <= x <= 1; pow(0, y) is undefined for y <= 0
Pow(x, y, undef) ==
    IF x = 0 THEN (IF y > 0 THEN 0 ELSE undef)
    ELSE IF x = Scale \/ y = 0 THEN Scale
    ELSE CASE y = 500  -> Sqrt(x)
           [] y = 1000 -> x
           [] y = 1500 -> Mul(x, Sqrt(x))
           [] y = 2000 -> Mul(x, x)

widthFactorPrecedence(shapeT, baseWidth, tipThin, undef) ==
    IF Pow(Scale - shapeT, tipThin, undef) = NaN THEN NaN
    ELSE shapeT + Mul(baseWidth, Pow(Scale - shapeT, tipThin, undef))

\* (shapeT + uGeometryBaseWidth) * pow(1.0 - shapeT, uGeometryTipThin)
widthFactor(shapeT, baseWidth, tipThin, undef) ==
    FMul(shapeT + baseWidth, Pow(Scale - shapeT, tipThin, undef))

\* (width * densityCompensation) * widthFactor * s * finalPresence: the signed
\* length of the offset of a vertex from the spine along side (GLSL)
lateralOffset(width, densityCompensation, wf, s, finalPresence) ==
    FMul(FMul(FMul(Mul(width, densityCompensation), wf), s), finalPresence)

\* width * widthFactor * s: the same offset in the TSL material
lateralOffsetTSL(width, wf, s) == FMul(FMul(width, wf), s)

windDistanceFalloffStartGuard(windStart, windEnd, dist, undef) ==
    IF windStart > 0
    THEN OneMinus(smoothstepOrUndefined(windStart, windEnd, dist, undef))
    ELSE Scale

\* windDistanceFalloff of the vertex stage (GLSL if, TSL select)
windDistanceFalloff(windStart, windEnd, dist, undef) ==
    IF windEnd > 0
    THEN OneMinus(smoothstepOrUndefined(windStart, windEnd, dist, undef))
    ELSE Scale

-----------------------------------------------------------------------------
(* Shaping stage: the position of one vertex (main of the vertex shader)   *)

NaN3 == <<NaN, NaN, NaN>>

Vec3Add(a, b) == <<a[1] + b[1], a[2] + b[2], a[3] + b[3]>>
Vec3Scale(v, k) == <<Mul(v[1], k), Mul(v[2], k), Mul(v[3], k)>>
Cross(a, b) ==
    <<Mul(a[2], b[3]) - Mul(a[3], b[2]),
      Mul(a[3], b[1]) - Mul(a[1], b[3]),
      Mul(a[1], b[2]) - Mul(a[2], b[1])>>
Dot3(a, b) == Mul(a[1], b[1]) + Mul(a[2], b[2]) + Mul(a[3], b[3])
Length3(v) == ISqrt(v[1] * v[1] + v[2] * v[2] + v[3] * v[3])
\* normalize(v); the result for the zero vector is not a number
Normalize3(v) ==
    LET len == Length3(v)
    IN  IF len = 0 THEN NaN3 ELSE <<Div(v[1], len), Div(v[2], len), Div(v[3], len)>>

\* u*u*u, 3*u*u*t, 3*u*t*t, t*t*t for u = 1 - t
BernsteinWeights(t) ==
    LET u == Scale - t
    IN  <<(u * u * u) \div (Scale * Scale),
          3 * ((u * u * t) \div (Scale * Scale)),
          3 * ((u * t * t) \div (Scale * Scale)),
          (t * t * t) \div (Scale * Scale)>>

bezier3(p0, p1, p2, p3, t) ==
    LET w == BernsteinWeights(t)
    IN  Vec3Add(Vec3Add(Vec3Scale(p0, w[1]), Vec3Scale(p1, w[2])),
                Vec3Add(Vec3Scale(p2, w[3]), Vec3Scale(p3, w[4])))

bezier3Tangent(p0, p1, p2, p3, t) ==
    LET u == Scale - t
    IN  Vec3Add(Vec3Add(Vec3Scale(Vec3Add(p1, Vec3Scale(p0, -Scale)), 3 * Mul(u, u)),
                        Vec3Scale(Vec3Add(p2, Vec3Scale(p1, -Scale)), 6 * Mul(u, t))),
                Vec3Scale(Vec3Add(p3, Vec3Scale(p2, -Scale)), 3 * Mul(t, t)))

getBezierControlPointsBentTip(discreteType, height, bend) ==
    <<<<0, Mul(height, 400), Mul(bend, 500)>>, <<0, Mul(height, 750), Mul(bend, 700)>>,
      <<0, height, bend>>>>

getBezierControlPointsThreeTypes(discreteType, height, bend) ==
    IF discreteType = 0
    THEN <<<<0, Mul(height, 400), Mul(bend, 500)>>, <<0, Mul(height, 750), Mul(bend, 700)>>,
           <<0, height, 0>>>>
    ELSE IF discreteType = Scale
    THEN <<<<0, Mul(height, 350), Mul(bend, 600)>>, <<0, Mul(height, 700), Mul(bend, 800)>>,
           <<0, height, 0>>>>
    ELSE IF discreteType = 2 * Scale
    THEN <<<<0, Mul(height, 300), Mul(bend, 700)>>, <<0, Mul(height, 650), Mul(bend, Scale)>>,
           <<0, height, 0>>>>
    ELSE <<<<0, 0, 0>>, <<0, 0, 0>>, <<0, height, 0>>>>

\* the control points p1, p2 of the blade type, and the tip p3
getBezierControlPoints(discreteType, height, bend) ==
    IF discreteType = 0
    THEN <<<<0, Mul(height, 400), Mul(bend, 500)>>, <<0, Mul(height, 750), Mul(bend, 700)>>,
           <<0, height, 0>>>>
    ELSE IF discreteType = Scale
    THEN <<<<0, Mul(height, 350), Mul(bend, 600)>>, <<0, Mul(height, 700), Mul(bend, 800)>>,
           <<0, height, 0>>>>
    ELSE <<<<0, Mul(height, 300), Mul(bend, 700)>>, <<0, Mul(height, 650), Mul(bend, Scale)>>,
           <<0, height, 0>>>>

\* vec3(safeNormalize(uWindDir), 0.0).xzy
getWindDirection(uWindDir) ==
    <<safeNormalize(uWindDir)[1], 0, safeNormalize(uWindDir)[2]>>

applyWindPush(p, windStrength, height, vu) ==
    LET windDir == getWindDirection(vu.uWindDir)
        tipPush == Mul(Mul(windStrength, height), 250)
        midPush1 == Mul(Mul(windStrength, height), 80)
        midPush2 == Mul(Mul(windStrength, height), 150)
    IN  <<Vec3Add(p[1], Vec3Scale(windDir, midPush1)),
          Vec3Add(p[2], Vec3Scale(windDir, midPush2)),
          Vec3Add(p[3], Vec3Scale(windDir, tipPush))>>

applyWindSway(p, windStrength, height, perBladeHash01, t, worldXZ, vu) ==
    LET W == getWindDirection(vu.uWindDir)
        CW == Normalize3(<<-W[3], 0, W[1]>>)
        seed == Fract(Mul(perBladeHash01, 3567))
        gust == 650 + Mul(350, Sin(Mul(vu.uWindTime, 350) + Mul(seed, TwoPi)))
        wave == Mul(Mul(worldXZ[1], W[1]) + Mul(worldXZ[2], W[3]), 150)
        baseFreq == Mix(vu.uWindSwayFreqMin, vu.uWindSwayFreqMax, seed)
        phase == Mul(perBladeHash01, TwoPi) + wave
        low == Sin(Mul(vu.uWindTime, baseFreq) + phase + Mul(t, 2200))
        high == Sin(Mul(vu.uWindTime, baseFreq * 5) + Mul(phase, 1700) + Mul(t, 5000))
        amp == Mul(height, windStrength)
        swayLow == Mul(Mul(amp, gust), vu.uWindSwayStrength)
        swayHigh == Mul(Mul(amp, 800), vu.uWindSwayStrength)
        dir == Normalize3(Vec3Add(W, Vec3Scale(CW, Mul(high, 350))))
    IN  <<Vec3Add(p[1], Vec3Scale(dir, Mul(Mul(low, swayLow), 250)
                                         + Mul(Mul(Mul(high, swayHigh), 250), 300))),
          Vec3Add(p[2], Vec3Scale(dir, Mul(Mul(low, swayLow), 550)
                                         + Mul(Mul(Mul(high, swayHigh), 550), 600))),
          Vec3Add(p[3], Vec3Scale(dir, Mul(low, swayLow) + Mul(high, swayHigh)))>>

\* rotate2D of the shader library: rotation of (x, z) by angle
rotate2D(v, angle) ==
    <<Mul(v[1], Cos(angle)) - Mul(v[2], Sin(angle)),
      Mul(v[1], Sin(angle)) + Mul(v[2], Cos(angle))>>

\* v with its xz rotated by angle
RotateXZ(v, angle) ==
    <<rotate2D(<<v[1], v[3]>>, angle)[1], v[2], rotate2D(<<v[1], v[3]>>, angle)[2]>>

\* rotateAxis(v, axis, angle), given cos(angle) and sin(angle)
rotateAxis(v, axis, cosAngle, sinAngle) ==
    LET along == Vec3Scale(axis, Dot3(axis, v))
    IN  Vec3Add(Vec3Add(Vec3Scale(along, Scale - cosAngle), Vec3Scale(v, cosAngle)),
                Vec3Scale(Cross(axis, v), sinAngle))

alignToSlopeRawAxis(v, terrainNormal) ==
    LET axis == Cross(<<0, Scale, 0>>, terrainNormal)
        dotProd == Clamp(terrainNormal[2], -Scale, Scale)
    IN  IF Length3(axis) > 1
        THEN rotateAxis(v, axis, dotProd, Sqrt(Scale - Mul(dotProd, dotProd)))
        ELSE v

\* slope alignment of v: angle = acos(dotProd), about cross(up, terrainNormal)
alignToSlope(v, terrainNormal) ==
    LET axis == Cross(<<0, Scale, 0>>, terrainNormal)
        dotProd == Clamp(terrainNormal[2], -Scale, Scale)
    IN  IF Length3(axis) > 1
        THEN rotateAxis(v, Normalize3(axis), dotProd, Sqrt(Scale - Mul(dotProd, dotProd)))
        ELSE v

RECURSIVE CbrtSearch(_, _, _)
CbrtSearch(n, lo, hi) ==
    IF lo >= hi THEN lo
    ELSE LET mid == (lo + hi + 1) \div 2
         IN  IF mid * mid * mid <= n THEN CbrtSearch(n, mid, hi)
             ELSE CbrtSearch(n, lo, mid - 1)

\* pow(x, 0.33) for 0 <= x <= 1.05, taken as the cube root
PowThird(x) == CbrtSearch(x * Scale * Scale, 0, 1290)

cullingInverted(presence, perBladeHash01, uCullParams, dist, undef) ==
    LET cullWeight == smoothstepOrUndefined(uCullParams[1], uCullParams[2], dist, undef)
        isCulled == Step(cullWeight, perBladeHash01)
        shrinkGate == smoothstep(Scale - cullWeight, Scale - cullWeight + 100,
                                 perBladeHash01)
    IN  IF cullWeight = NaN
        THEN [finalPresence |-> NaN, densityCompensation |-> NaN]
        ELSE [finalPresence |-> Mul(Mul(presence, Scale - isCulled), Scale - shrinkGate),
              densityCompensation |-> Mix(Scale, uCullParams[3], cullWeight)]

cullingStrictStep(presence, perBladeHash01, uCullParams, dist, undef) ==
    LET cullWeight == smoothstepOrUndefined(uCullParams[1], uCullParams[2], dist, undef)
        isCulled == IF perBladeHash01 > Scale - cullWeight THEN Scale ELSE 0
        shrinkGate == smoothstep(Scale - cullWeight, Scale - cullWeight + 100,
                                 perBladeHash01)
    IN  IF cullWeight = NaN
        THEN [finalPresence |-> NaN, densityCompensation |-> NaN]
        ELSE [finalPresence |-> Mul(Mul(presence, Scale - isCulled), Scale - shrinkGate),
              densityCompensation |-> Mix(Scale, uCullParams[3], cullWeight)]

\* per-instance culling: finalPresence and densityCompensation
culling(presence, perBladeHash01, uCullParams, dist, undef) ==
    LET cullWeight == smoothstepOrUndefined(uCullParams[1], uCullParams[2], dist, undef)
        isCulled == Step(Scale - cullWeight, perBladeHash01)
        shrinkGate == smoothstep(Scale - cullWeight, Scale - cullWeight + 100,
                                 perBladeHash01)
    IN  IF cullWeight = NaN
        THEN [finalPresence |-> NaN, densityCompensation |-> NaN]
        ELSE [finalPresence |-> Mul(Mul(presence, Scale - isCulled), Scale - shrinkGate),
              densityCompensation |-> Mix(Scale, uCullParams[3], cullWeight)]

\* the offset applyViewDependentTilt adds along nXZ
viewTilt(s, t, camDirLocalY, thicknessStrength) ==
    LET edgeMask == Clamp(Mul(Mul(s \div 2, camDirLocalY), Abs(camDirLocalY)), 0, Scale)
        centerMask == Clamp(Mul(Sqrt(Scale - t), PowThird(t + 50)), 0, Scale)
    IN  Mul(Mul(thicknessStrength, edgeMask), centerMask)

\* section 3 of main: the facing angle of the blade from its record
decodeFacingAngle(facingAngle01) == Mul(facingAngle01, TwoPi)

\* normalize(v) of a vector that may already be not a number
Unit3(v) == IF v = NaN3 THEN NaN3 ELSE Normalize3(v)

\* section 8 of main: the frame at the spine point with the given tangent
tbnFrame(tangent) ==
    LET side == Unit3(Cross(<<0, 0, Scale>>, tangent))
    IN  IF tangent = NaN3 \/ side = NaN3
        THEN [tangent |-> tangent, side |-> NaN3, normal |-> NaN3]
        ELSE [tangent |-> tangent, side |-> side,
              normal |-> Unit3(Cross(side, tangent))]

\* section 11 of main: what the facing rotation makes of the frame f
facingFrame(f, facingAngle) ==
    IF f.normal = NaN3 THEN f
    ELSE [tangent |-> Unit3(RotateXZ(f.tangent, facingAngle)),
          side |-> Unit3(RotateXZ(f.side, facingAngle)),
          normal |-> Unit3(f.normal)]

\* section 11.5 of main: what the slope alignment makes of the frame f
slopeFrame(f, terrainNormal) ==
    IF f.normal = NaN3 THEN f
    ELSE [tangent |-> alignToSlope(f.tangent, terrainNormal),
          side |-> alignToSlope(f.side, terrainNormal),
          normal |-> alignToSlope(f.normal, terrainNormal)]

\* the frame of a vertex as built (tbn), as turned to face (facing) and as
\* laid on the slope (out: vTangent, vSide and -vN)
framesOf(tangent, facingAngle, terrainNormal) ==
    [tbn |-> tbnFrame(tangent),
     facing |-> facingFrame(tbnFrame(tangent), facingAngle),
     out |-> slopeFrame(facingFrame(tbnFrame(tangent), facingAngle), terrainNormal)]

\* main from the blade frame on (sections 8 and 10 to 15): width offset,
\* facing rotation, slope alignment, translation, view dependent tilt
placeVertex(a, windStrength, cull, spine, tangent, lateral) ==
    LET facingAngle == decodeFacingAngle(a.facingAngle01)
        side == IF tangent = NaN3 THEN NaN3
                ELSE Normalize3(Cross(<<0, 0, Scale>>, tangent))
        normal == IF side = NaN3 THEN NaN3 ELSE Normalize3(Cross(side, tangent))
        lpos == RotateXZ(Vec3Add(spine, Vec3Scale(side, lateral)), facingAngle)
        posObj == Vec3Add(Vec3Add(alignToSlope(lpos, a.terrain.normal), a.instanceOffset),
                          <<0, a.terrain.height, 0>>)
        slopeNormal == alignToSlope(normal, a.terrain.normal)
        nXZ == Normalize3(<<slopeNormal[1], 0, slopeNormal[3]>>)
        tilt == viewTilt(a.s, a.shapeT, a.camDirLocalY, a.vu.uGeometryThicknessStrength)
    IN  IF windStrength = NaN \/ normal = NaN3 \/ lateral = NaN
        THEN [lpos |-> NaN3, posObj |-> NaN3, csm_Position |-> NaN3,
              finalPresence |-> cull.finalPresence,
              tangent |-> IF windStrength = NaN THEN NaN3 ELSE tangent]
        ELSE [lpos |-> lpos, posObj |-> posObj, tangent |-> tangent,
              csm_Position |-> IF nXZ = NaN3 THEN NaN3
                               ELSE Vec3Add(posObj, Vec3Scale(nXZ, tilt)),
              finalPresence |-> cull.finalPresence]

\* main from the control points p on (sections 7 and 10): spine, tangent and
\* the lateral offset of the vertex
shapeBlade(a, undef, windStrength, positionT, p, cull) ==
    placeVertex(a, windStrength, cull,
                bezier3(<<0, 0, 0>>, p[1], p[2], p[3], positionT),
                Normalize3(bezier3Tangent(<<0, 0, 0>>, p[1], p[2], p[3], positionT)),
                IF cull.finalPresence = NaN THEN NaN
                ELSE lateralOffset(a.width, cull.densityCompensation,
                                   widthFactor(a.shapeT, a.vu.uGeometryBaseWidth,
                                               a.vu.uGeometryTipThin, undef),
                                   a.s, cull.finalPresence))

\* main of the vertex shader for the vertex (shapeT, s) of the blade with
\* record fields a, uniforms a.vu, terrain a.terrain; camDirLocal.y is +-1
vertexMain(a, undef) ==
    LET positionT == calculateLODPositionT(a.shapeT, a.lodWeight)
        windStrength == FMul(a.windStrength01,
                             windDistanceFalloff(a.vu.uWindDistanceRange[1],
                                                 a.vu.uWindDistanceRange[2], a.dist, undef))
    IN  shapeBlade(a, undef, windStrength, positionT,
                   applyWindSway(applyWindPush(getBezierControlPoints(
                                                   Floor(Mul(a.bladeType, 3000)),
                                                   a.height, a.bend),
                                               windStrength, a.height, a.vu),
                                 windStrength, a.height, a.perBladeHash01, positionT,
                                 <<a.instanceOffset[1], a.instanceOffset[3]>>, a.vu),
                   culling(a.presence, a.perBladeHash01, a.vu.uCullParams, a.dist, undef))

-----------------------------------------------------------------------------
(* The shader functions, applied to inputs drawn from bounded sets.  call  *)
(* holds the arguments of an evaluation and, once done, its result; the    *)
(* component is not mounted and no frame runs.                             *)

MaxPresenceStep == 44
MaxComponent == 30000
MaxDist == 3

\* distances to the clump centre, in steps of 0.05
PresenceDistances == {k * 50 : k \in 0..MaxPresenceStep}
\* clumpRadius: the ends of the control's range, the default and 1.0
ClumpRadii == {300, 1000, 1500, 2000}

\* vector components in Micro units, around the three thresholds
Magnitudes == {0, 1, 2, 9, 10, 11, 500, 999, 1000, 1001, 5000, MaxComponent, Huge}
Components == Magnitudes \cup {-m : m \in Magnitudes}
Vectors == Components \X Components

\* camera distances and range ends, in steps of 0.5
RangeEnds == {k * Scale : k \in 0..MaxDist}
CameraDistances == {k * (Scale \div 2) : k \in 0..(2 * MaxDist + 1)}

VertexRows == 0..BLADE_SEGMENTS
BaseWidths == {0, 350, 1000}
TipThins == {0, 10, 500, 900, 1000, 1500, 2000}

\* root positions of the patches of two by two blades
\* gridSize and patchSize of the Grass controls: the ends of their ranges and
\* the defaults
SizeControls == [gridSize |-> {64, 384, 512}, patchSize |-> {5, 20, 50}]

\* grid indices 0..MaxIndex, and the last one of the grid
MaxIndex == 5
GridIndices(g) == 0..MaxIndex \cup {g - 1}

\* lattice cells -MaxCell..MaxCell in both directions
MaxCell == 8
LatticeCells == {<<i * Scale, j * Scale>> : i \in -MaxCell..MaxCell, j \in -MaxCell..MaxCell}

\* clumpSize: its default 0.8 and values of its control's range 0.1 .. 5.0
ClumpSizes == {500, 800, 1000, 2000, 5000}

\* the jittered seed coordinate of lattice cell c, in cells
SeedCoordOf(c) == <<c[1] + hash2(c)[1], c[2] + hash2(c)[2]>>

\* fractional parts of the query positions inside a cell
Fractions == {0, 170, 500, 740, 830, 860, 990}

\* query positions in lattice cell c, in cells: its seed and a grid of points
QueryPoints(c) ==
    {SeedCoordOf(c)} \cup {<<c[1] + fx, c[2] + fy>> : fx \in Fractions, fy \in Fractions}

BladePositions ==
    {PositionOf(x, z, 2, p) : x \in 0..1, z \in 0..1, p \in PatchSizes}

\* values of the wind controls (the ends of their ranges and the defaults),
\* of the elapsed time, of bendAmountMin and bendAmountMax (min <= max) and
\* of bladeRandomness
ComputeSettings ==
    [windStrength |-> {0, 350, 2000},
     windFacing |-> {0, 600, 1000},
     windDir |-> {<<Micro, 0>>, <<0, 0>>, <<-600000, 800000>>},
     windTime |-> {0, 1500},
     bend |-> {<<200, 600>>, <<0, 0>>, <<0, 1000>>},
     bladeRandomness |-> {<<300, 300, 200>>, <<900, 900, 900>>, <<1000, 1000, 1000>>}]

\* the uniforms of a dispatch at elapsed time t under the given controls
UniformsOf(ws, wf, wd, t, bend, rnd) ==
    [createUniforms([DefaultParams EXCEPT
                        !.windStrength = ws, !.windFacing = wf,
                        !.windDirX = wd[1], !.windDirZ = wd[2],
                        !.bendAmountMin = bend[1], !.bendAmountMax = bend[2],
                        !.bladeRandomness = rnd])
        EXCEPT !.uWindTime = t]

MaxCullDist == 32

\* camera distances around the cull range, in steps of 1 and next to its end
CullDistances == {k * Scale : k \in 0..MaxCullDist} \cup {29999, 30001}

\* stored type trends: the ends of [0, 1] and both sides of each third
TypeTrends == {0, 333, 334, 500, 666, 667, 999, Scale}

\* a terrain sample: flat ground, a slope raised above it, and ground whose
\* normal leans by 0.001
Terrains ==
    {[height |-> 0, normal |-> <<0, Scale, 0>>],
     [height |-> 300, normal |-> <<600, 800, 0>>],
     [height |-> 0, normal |-> <<1, Scale, 0>>]}

\* one vertex of one blade under the default controls (tipThin 1.0, a
\* power Pow has at every row): the middle of the right edge of a blade in
\* the wind, seen from the near field
DefaultVertex ==
    [fn |-> "main", done |-> FALSE,
     height |-> 400, width |-> 50, bend |-> 600, bladeType |-> 400,
     presence |-> Scale, facingAngle01 |-> 700, perBladeHash01 |-> 370,
     windStrength01 |-> 350, instanceOffset |-> <<1500, 0, -2000>>,
     shapeT |-> RowT(7), s |-> Scale, lodWeight |-> Scale, dist |-> 0,
     camDirLocalY |-> Scale, terrain |-> [height |-> 0, normal |-> <<0, Scale, 0>>],
     vu |-> [uWindTime |-> 1500, uWindDir |-> <<Micro, 0>>,
             uWindSwayFreqMin |-> 400, uWindSwayFreqMax |-> 1500,
             uWindSwayStrength |-> 100, uWindDistanceRange |-> <<10000, 30000>>,
             uCullParams |-> <<15000, 30000, 1500>>, uGeometryBaseWidth |-> 350,
             uGeometryTipThin |-> Scale, uGeometryThicknessStrength |-> 20],
     lpos |-> <<0, 0, 0>>, posObj |-> <<0, 0, 0>>, csm_Position |-> <<0, 0, 0>>,
     finalPresence |-> 0,
     frames |-> framesOf(<<0, Scale, 0>>, 0, <<0, Scale, 0>>)]

FrameIdle == FrameInit /\ gridSize = 1 /\ patchSize = 20

InitShader ==
    /\ FrameIdle
    /\ prior = NoCall
    /\ \/ \E R \in ClumpRadii, d \in PresenceDistances :
             call = [fn |-> "calculatePresence", clumpRadius |-> R,
                     distToCenter |-> d, done |-> FALSE, out |-> 0]
       \/ \E f \in {"safeNormalize", "safeNormalizeTSL", "calculateToCenter",
                    "safeNormalize2D"}, v \in Vectors :
             call = [fn |-> f, v |-> v, done |-> FALSE, out |-> <<0, 0>>]
       \/ \E r \in VertexRows, a \in RangeEnds, b \in RangeEnds, d \in CameraDistances :
             call = [fn |-> "calculateLODPositionT", shapeT |-> RowT(r),
                     lodStart |-> a, lodEnd |-> b, dist |-> d, done |-> FALSE,
                     lodWeight |-> 0, positionT |-> 0]
       \/ \E r \in VertexRows, bw \in BaseWidths, tt \in TipThins,
             w \in {0, Scale}, s \in {-Scale, Scale}, fp \in {500, Scale},
             dc \in {Scale, 1500} :
             /\ r \in {0, BLADE_SEGMENTS} \/ tt \in HalfPowers
             /\ call = [fn |-> "widthFactor", shapeT |-> RowT(r), lodWeight |-> w,
                        baseWidth |-> bw, tipThin |-> tt, s |-> s, width |-> 50,
                        densityCompensation |-> dc, finalPresence |-> fp,
                        done |-> FALSE, positionT |-> 0, out |-> 0,
                        offset |-> 0, offsetTSL |-> 0]
       \/ \E a \in RangeEnds, b \in RangeEnds, d \in CameraDistances :
             call = [fn |-> "windDistanceFalloff", windStart |-> a,
                     windEnd |-> b, dist |-> d, done |-> FALSE, out |-> 0]
       \/ \E c \in LatticeCells, cs \in ClumpSizes, R \in {300, 1500} :
             \E q \in QueryPoints(c) :
                /\ q = SeedCoordOf(c) \/ (cs = Scale /\ R = 1500)
                /\ call = [fn |-> "getClumpInfo", c |-> c,
                           u |-> [uClumpSize |-> cs, uClumpRadius |-> R],
                           worldXZ |-> <<Mul(q[1], cs), Mul(q[2], cs)>>,
                           done |-> FALSE, cellId |-> <<0, 0>>,
                           distToCenter |-> 0, presence |-> 0]
       \/ \E g \in SizeControls.gridSize, p \in SizeControls.patchSize :
             \E x \in GridIndices(g), z \in GridIndices(g) :
                call = [fn |-> "PositionOf", x |-> x, z |-> z, gridSize |-> g,
                        patchSize |-> p, done |-> FALSE, pos |-> <<0, 0, 0>>]
       \/ \E h \in {0, 800}, b \in {0, 600}, ty \in {0, 400, 900},
             fa \in {0, 700}, ws \in {0, 350}, ter \in Terrains,
             v \in {<<Scale, 0>>, <<Scale, Scale>>, <<RowT(7), Scale>>},
             cfg \in {<<Scale, <<10000, 30000>>, <<15000, 30000, 1500>>>>,
                      <<0, <<10000, 30000>>, <<15000, 30000, 1500>>>>,
                      <<Scale, <<30000, 10000>>, <<15000, 30000, 1500>>>>,
                      <<Scale, <<0, 0>>, <<15000, 30000, 1500>>>>,
                      <<Scale, <<10000, 30000>>, <<30000, 15000, 1500>>>>} :
             call = [DefaultVertex EXCEPT
                        !.height = h, !.bend = b, !.bladeType = ty,
                        !.facingAngle01 = fa, !.windStrength01 = ws,
                        !.vu.uGeometryTipThin = cfg[1],
                        !.vu.uWindDistanceRange = cfg[2],
                        !.vu.uCullParams = cfg[3], !.terrain = ter,
                        !.shapeT = v[1], !.s = v[2]]
       \/ \E ty \in TypeTrends, h \in {100, 400, 800, 2000}, b \in {0, 200, 600, 1000} :
             call = [fn |-> "getBezierControlPoints", bladeType |-> ty, height |-> h,
                     bend |-> b, done |-> FALSE, discreteType |-> 0,
                     p |-> <<<<0, 0, 0>>, <<0, 0, 0>>, <<0, 0, 0>>>>]
       \/ \E g \in SizeControls.gridSize, p \in SizeControls.patchSize :
             \E x \in GridIndices(g), z \in GridIndices(g) :
                call = [fn |-> "texelFetch", x |-> x, z |-> z, gridSize |-> g,
                        patchSize |-> p, done |-> FALSE, instanceId |-> 0,
                        instanceOffset |-> <<0, 0, 0>>, texelCoord |-> <<0, 0>>,
                        posData |-> <<0, 0, 0, 0>>]
       \/ \E pr \in {0, 500, Scale}, hash \in {0, 1, 500, 950}, d \in CullDistances :
             call = [DefaultVertex EXCEPT
                        !.presence = pr, !.perBladeHash01 = hash, !.dist = d]
       \/ \E pos \in BladePositions, ws \in ComputeSettings.windStrength,
             wf \in ComputeSettings.windFacing, wd \in ComputeSettings.windDir,
             t \in ComputeSettings.windTime, bend \in ComputeSettings.bend,
             rnd \in ComputeSettings.bladeRandomness :
             call = [fn |-> "computeFn", pos |-> pos,
                     u |-> UniformsOf(ws, wf, wd, t, bend, rnd),
                     done |-> FALSE, rec |-> ZeroRecord, baseAngle |-> 0,
                     windStrengthGLSL |-> 0]

Todo(f) == call.fn = f /\ ~call.done

EvalPresence ==
    /\ Todo("calculatePresence")
    /\ call' = [call EXCEPT !.done = TRUE,
                  !.out = calculatePresence(call.distToCenter, call.clumpRadius)]
    /\ UNCHANGED <<prior, frameVars>>

\* a blade of the same clump, at least as far from the centre
FartherBlade ==
    /\ call.fn = "calculatePresence"
    /\ call.done
    /\ prior = NoCall
    /\ \E d \in PresenceDistances :
          /\ d >= call.distToCenter
          /\ call' = [call EXCEPT !.distToCenter = d, !.done = FALSE, !.out = 0]
    /\ prior' = call
    /\ UNCHANGED frameVars

EvalSafeNormalize ==
    /\ Todo("safeNormalize")
    /\ call' = [call EXCEPT !.done = TRUE, !.out = safeNormalize(call.v)]
    /\ UNCHANGED <<prior, frameVars>>

EvalSafeNormalizeTSL ==
    /\ Todo("safeNormalizeTSL")
    /\ call' = [call EXCEPT !.done = TRUE, !.out = safeNormalizeTSL(call.v)]
    /\ UNCHANGED <<prior, frameVars>>

EvalToCenter ==
    /\ Todo("calculateToCenter")
    /\ call' = [call EXCEPT !.done = TRUE, !.out = normalizeToCenter(call.v)]
    /\ UNCHANGED <<prior, frameVars>>

EvalSafeNormalize2D ==
    /\ Todo("safeNormalize2D")
    /\ call' = [call EXCEPT !.done = TRUE, !.out = safeNormalize2D(call.v)]
    /\ UNCHANGED <<prior, frameVars>>

EvalLODPositionT ==
    /\ Todo("calculateLODPositionT")
    /\ \E undef \in UndefinedFloat :
          LET lodWeight == smoothstepOrUndefined(call.lodStart, call.lodEnd,
                                                 call.dist, undef)
          IN  call' = [call EXCEPT !.done = TRUE, !.lodWeight = lodWeight,
                         !.positionT = calculateLODPositionT(call.shapeT, lodWeight)]
    /\ UNCHANGED <<prior, frameVars>>

\* the folded row is folded again, with the same weight
Refold ==
    /\ call.fn = "calculateLODPositionT"
    /\ call.done
    /\ prior = NoCall
    /\ prior' = call
    /\ call' = [call EXCEPT !.shapeT = call.positionT,
                  !.positionT = calculateLODPositionT(call.positionT, call.lodWeight)]
    /\ UNCHANGED frameVars

EvalWidthFactor ==
    /\ Todo("widthFactor")
    /\ \E undef \in UndefinedFloat :
          LET wf == widthFactor(call.shapeT, call.baseWidth, call.tipThin, undef)
          IN  call' = [call EXCEPT !.done = TRUE, !.out = wf,
                         !.positionT = calculateLODPositionT(call.shapeT, call.lodWeight),
                         !.offset = lateralOffset(call.width, call.densityCompensation,
                                                  wf, call.s, call.finalPresence),
                         !.offsetTSL = lateralOffsetTSL(call.width, wf, call.s)]
    /\ UNCHANGED <<prior, frameVars>>

EvalWindDistanceFalloff ==
    /\ Todo("windDistanceFalloff")
    /\ \E undef \in UndefinedFloat :
          call' = [call EXCEPT !.done = TRUE,
                     !.out = windDistanceFalloff(call.windStart, call.windEnd,
                                                 call.dist, undef)]
    /\ UNCHANGED <<prior, frameVars>>

\* one invocation of the compute function on its own
EvalComputeFn ==
    /\ Todo("computeFn")
    /\ call' = [call EXCEPT !.done = TRUE,
                  !.rec = BladeRecord(call.pos, call.u),
                  !.baseAngle = baseAngleOf(call.pos, call.u),
                  !.windStrengthGLSL =
                      calculateWindStrengthGLSL(<<call.pos[1], call.pos[3]>>, call.u)]
    /\ UNCHANGED <<prior, frameVars>>

\* one iteration of the two loops that fill positionArray
EvalPositionOf ==
    /\ Todo("PositionOf")
    /\ call' = [call EXCEPT !.done = TRUE,
                  !.pos = PositionOf(call.x, call.z, call.gridSize, call.patchSize)]
    /\ UNCHANGED <<prior, frameVars>>

\* the clump of one blade position: getClumpInfo, then calculatePresence
EvalClumpInfo ==
    /\ Todo("getClumpInfo")
    /\ LET clumpInfo == getClumpInfo(call.worldXZ, call.u)
       IN  call' = [call EXCEPT !.done = TRUE,
                      !.cellId = clumpInfo.cellId,
                      !.distToCenter = clumpInfo.distToCenter,
                      !.presence = calculatePresence(clumpInfo.distToCenter,
                                                     call.u.uClumpRadius)]
    /\ UNCHANGED <<prior, frameVars>>

\* a vertex of instance (x, z) fetches the record of its blade: the compute
\* pass wrote it at the fragment whose position texel is posData
EvalTexelFetch ==
    /\ Todo("texelFetch")
    /\ \E inst \in {geometryInstance(call.x, call.z, call.gridSize, call.patchSize)} :
          call' = [call EXCEPT !.done = TRUE,
                     !.instanceId = inst.instanceId,
                     !.instanceOffset = inst.instanceOffset,
                     !.texelCoord = texelCoordOf(inst.instanceId, call.gridSize),
                     !.posData = positionTexel(texelCoordOf(inst.instanceId, call.gridSize),
                                               call.gridSize, call.patchSize)]
    /\ UNCHANGED <<prior, frameVars>>

\* main picks the control points of a blade from its stored type trend
EvalControlPoints ==
    /\ Todo("getBezierControlPoints")
    /\ call' = [call EXCEPT !.done = TRUE,
                  !.discreteType = Floor(Mul(call.bladeType, 3000)),
                  !.p = getBezierControlPoints(Floor(Mul(call.bladeType, 3000)),
                                               call.height, call.bend)]
    /\ UNCHANGED <<prior, frameVars>>

\* the vertex shader runs for one vertex
EvalVertexMain ==
    /\ Todo("main")
    /\ \E undef \in UndefinedFloat :
          \E out \in {vertexMain(call, undef)} :
             call' = [call EXCEPT !.done = TRUE, !.lpos = out.lpos,
                        !.posObj = out.posObj,
                        !.csm_Position = out.csm_Position,
                        !.finalPresence = out.finalPresence,
                        !.frames = framesOf(out.tangent, decodeFacingAngle(call.facingAngle01),
                                            call.terrain.normal)]
    /\ UNCHANGED <<prior, frameVars>>

NextShader ==
    \/ EvalPresence
    \/ FartherBlade
    \/ EvalSafeNormalize
    \/ EvalSafeNormalizeTSL
    \/ EvalToCenter
    \/ EvalSafeNormalize2D
    \/ EvalLODPositionT
    \/ Refold
    \/ EvalWidthFactor
    \/ EvalWindDistanceFalloff
    \/ EvalComputeFn
    \/ EvalPositionOf
    \/ EvalClumpInfo
    \/ EvalControlPoints
    \/ EvalTexelFetch
    \/ EvalVertexMain

SpecShader == InitShader /\ [][NextShader]_vars

-----------------------------------------------------------------------------
(* Properties of the shader functions *)

Done(f) == call.fn = f /\ call.done

\* C5: for a fixed clump radius, presence does not increase when the distance
\* to the clump centre increases, and it is 0 at every distance >= clumpRadius.
C5_PresenceNonIncreasing ==
    Done("calculatePresence")
        => /\ (call.distToCenter >= call.clumpRadius => call.out = 0)
           /\ (prior.fn = "calculatePresence" => call.out <= prior.out)

\* two blades inside the fade band of one clump, the farther one fainter
C5_Witness ==
    /\ Done("calculatePresence")
    /\ prior.fn = "calculatePresence"
    /\ prior.distToCenter < call.distToCenter
    /\ call.distToCenter < call.clumpRadius
    /\ 0 < call.out
    /\ call.out < prior.out
    /\ prior.out < Scale

\* C6: safeNormalize returns no NaN and no infinity for a finite input.
C6_SafeNormalizeFinite ==
    ((Done("safeNormalize") \/ Done("safeNormalizeTSL")) /\ IsFiniteVec(call.v))
        => IsFiniteVec(call.out)

\* safeNormalize has been applied to the zero vector
C6_Witness ==
    /\ Done("safeNormalizeTSL")
    /\ call.v = <<0, 0>>
    /\ call.out = <<Scale, 0>>

NormalisationSites ==
    {"safeNormalize", "safeNormalizeTSL", "calculateToCenter", "safeNormalize2D"}

\* out is the unit vector along v, up to the rounding of the last digit
IsUnit(out, v) ==
    /\ IsFiniteVec(out)
    /\ out[1] * out[1] + out[2] * out[2] >= 990000
    /\ out[1] * out[1] + out[2] * out[2] <= 1010000
    /\ out[1] # 0 => Sign(out[1]) = Sign(v[1])
    /\ out[2] # 0 => Sign(out[2]) = Sign(v[2])
    /\ Abs(out[1] * v[2] - out[2] * v[1]) <= 2 * (Abs(v[1]) + Abs(v[2]))

\* C7 as stated: every normalisation returns (1,0) when the squared length
\* is below 1e-6 and the unit vector otherwise.
C7_AsStated ==
    (call.fn \in NormalisationSites /\ call.done /\ Dot2(call.v) # PInf)
        => IF Dot2(call.v) < 1000000
           THEN call.out = <<Scale, 0>>
           ELSE IsUnit(call.out, call.v)

\* the squared length (Micro^2) above which each site normalises
NormaliseAbove(f) ==
    CASE f \in {"safeNormalize", "safeNormalizeTSL"} -> 1000000
      [] f = "calculateToCenter" -> 100
      [] f = "safeNormalize2D" -> 1

\* C7, amended: safeNormalize returns the unit vector when the squared length
\* exceeds 1e-6, calculateToCenter when the length exceeds 1e-5,
\* safeNormalize2D when the length exceeds 1e-6; each returns (1,0) otherwise.
C7_ThresholdPerSite ==
    (call.fn \in NormalisationSites /\ call.done /\ Dot2(call.v) # PInf)
        => IF Dot2(call.v) > NormaliseAbove(call.fn)
           THEN IsUnit(call.out, call.v)
           ELSE call.out = <<Scale, 0>>

\* a clump offset of squared length between 1e-10 and 1e-6 has been
\* normalised to a unit vector that is not the fallback
C7_Witness ==
    /\ Done("calculateToCenter")
    /\ Dot2(call.v) < 1000000
    /\ Dot2(call.v) > 100
    /\ IsUnit(call.out, call.v)
    /\ call.out # <<Scale, 0>>

\* C8: at the tip row (t = 1), for tipThin > 0 and any baseWidth, the width
\* factor is 0 and both tip vertices lie on the spine, with or without LOD
\* folding.
C8_TipWidthZero ==
    (Done("widthFactor") /\ call.shapeT = Scale /\ call.tipThin > 0)
        => /\ call.out = 0
           /\ call.offset = 0
           /\ call.offsetTSL = 0

\* a tip vertex of a folded, fully present blade with a wide base
C8_Witness ==
    /\ Done("widthFactor")
    /\ call.shapeT = Scale
    /\ call.tipThin = 900
    /\ call.baseWidth = Scale
    /\ call.lodWeight = Scale
    /\ call.finalPresence = Scale
    /\ call.out = 0

\* C9: folding a folded row again with the same LOD weight gives the same row.
C9_FoldIdempotent ==
    (call.fn = "calculateLODPositionT" /\ prior.fn = "calculateLODPositionT")
        => call.positionT = prior.positionT

\* an odd row was folded down, and the result folded again
C9_Witness ==
    /\ call.fn = "calculateLODPositionT"
    /\ prior.fn = "calculateLODPositionT"
    /\ prior.lodWeight >= Scale \div 2
    /\ prior.lodWeight < Scale
    /\ prior.positionT < prior.shapeT
    /\ call.positionT = prior.positionT

\* C10: for windDistanceStart < windDistanceEnd the falloff is 1 at camera
\* distances <= windDistanceStart and 0 at camera distances >= windDistanceEnd.
C10_WindFalloffBoundary ==
    (Done("windDistanceFalloff") /\ call.windStart < call.windEnd)
        => /\ (call.dist <= call.windStart => call.out = Scale)
           /\ (call.dist >= call.windEnd => call.out = 0)

\* a blade beyond the end of a range that starts at the camera
C10_Witness ==
    /\ Done("windDistanceFalloff")
    /\ call.windStart = 0
    /\ call.windStart < call.windEnd
    /\ call.dist > call.windEnd
    /\ call.out = 0

-----------------------------------------------------------------------------
(* Properties of the compute function *)

\* the encoding of an angle as facingAngle01
EncodedAngle(angle) == Div(normalizeAngle(angle) + Pi, TwoPi)

\* C11: with the wind strength parameter 0, the wind strength of every blade
\* is 0 and the facing angle written to its record is its base angle
\* (encoded into [0,1]), for every windFacing, wind direction and time.
C11_NoWindNoBlend ==
    (Done("computeFn") /\ call.u.uWindStrength = 0)
        => /\ call.rec.windStrength01 = 0
           /\ call.windStrengthGLSL = 0
           /\ call.rec.facingAngle01 = EncodedAngle(call.baseAngle)

\* a blade not facing the wind, with full windFacing, late in time, at wind
\* strength 0: its facing angle is the base angle, which is not the wind's
C11_Witness ==
    /\ Done("computeFn")
    /\ call.u.uWindStrength = 0
    /\ call.u.uWindFacing = Scale
    /\ call.u.uWindTime > 0
    /\ call.u.uWindDir = <<-600000, 800000>>
    /\ call.rec.facingAngle01 = EncodedAngle(call.baseAngle)
    /\ call.rec.facingAngle01 # EncodedAngle(Atan2(800, -600))
    /\ call.rec.facingAngle01 # 500

-----------------------------------------------------------------------------
(* Properties of the vertex shader *)

\* the tip of the centre line of a blade in still air
StillTip ==
    /\ Done("main")
    /\ call.windStrength01 = 0
    /\ call.shapeT = Scale
    /\ call.s = 0

\* the configurations in which no operation of the shader is undefined
Defined ==
    /\ call.vu.uGeometryTipThin > 0
    /\ call.vu.uCullParams[1] < call.vu.uCullParams[2]
    /\ \/ call.vu.uWindDistanceRange[1] < call.vu.uWindDistanceRange[2]
       \/ call.vu.uWindDistanceRange[2] <= 0

-----------------------------------------------------------------------------
(* C14: culling of the blade whose hash is 0 *)

\* the blade with perBladeHash 0.0 under uCullParams = (15, 30, .)
HashZeroBlade ==
    /\ Done("main")
    /\ call.vu.uCullParams[1] = 15000
    /\ call.vu.uCullParams[2] = 30000
    /\ call.perBladeHash01 = 0

-----------------------------------------------------------------------------
(* C13: the blade at the seed of a lattice cell *)

\* the position of the call is exactly the jittered seed of cell call.c: the
\* cell coordinate the shader computes from it, worldXZ / clumpSize, is the
\* seed coordinate c + hash2(c)
AtSeed ==
    /\ Done("getClumpInfo")
    /\ <<Div(call.worldXZ[1], call.u.uClumpSize),
         Div(call.worldXZ[2], call.u.uClumpSize)>> = SeedCoordOf(call.c)

\* C13: a blade positioned exactly at the jittered seed coordinate of a
\* lattice cell c is assigned cellId = c, distanceToCenter = 0 and
\* presence = 1.
C13_SeedIsCentre ==
    AtSeed => /\ call.cellId = call.c
              /\ call.distToCenter = 0
              /\ call.presence = Scale

C13_Witness ==
    /\ AtSeed
    /\ call.c = <<-2 * Scale, Scale>>
    /\ hash2(call.c) # <<0, 0>>
    /\ call.u.uClumpSize = 2000
    /\ call.cellId = call.c
    /\ call.distToCenter = 0
    /\ call.presence = Scale

-----------------------------------------------------------------------------
(* C15: the normalised fields of the blade record *)

InUnitRange(x) == 0 <= x /\ x <= Scale

\* C15: after a compute invocation, under every configuration of the
\* controls' ranges (windStrength up to 2), the record fields presence,
\* clumpSeed, facingAngle01, perBladeHash, windStrength and lodSeed each lie
\* in [0, 1].
C15_FieldsInUnitRange ==
    Done("computeFn")
        => /\ InUnitRange(call.rec.presence)
           /\ InUnitRange(call.rec.clumpSeed01)
           /\ InUnitRange(call.rec.facingAngle01)
           /\ InUnitRange(call.rec.perBladeHash01)
           /\ InUnitRange(call.rec.windStrength01)
           /\ InUnitRange(call.rec.lodSeed01)

-----------------------------------------------------------------------------
(* C16: sign of the synthesized height, width and bend *)

\* the configuration of the call has min <= max for height, width and bend
MinBelowMax ==
    /\ call.u.uBladeHeightMin <= call.u.uBladeHeightMax
    /\ call.u.uBladeWidthMin <= call.u.uBladeWidthMax
    /\ call.u.uBendAmountMin <= call.u.uBendAmountMax

\* C16 as stated: for every blade and every configuration with min <= max of
\* the controls' ranges, the synthesized height, width and bend are strictly
\* greater than 0.
C16_AsStated ==
    (Done("computeFn") /\ MinBelowMax)
        => /\ call.rec.bladeHeight > 0
           /\ call.rec.bladeWidth > 0
           /\ call.rec.bladeBend > 0

\* C16, amended: for every blade and every configuration with min <= max of
\* the controls' ranges, height, width and bend are at least 0; each is
\* strictly greater than 0 when its minimum is above 0 and its
\* bladeRandomness component is below 1.
C16_NonNegative ==
    (Done("computeFn") /\ MinBelowMax)
        => /\ call.rec.bladeHeight >= 0
           /\ call.rec.bladeWidth >= 0
           /\ call.rec.bladeBend >= 0
           /\ (call.u.uBladeHeightMin > 0 /\ call.u.uBladeRandomness[1] < Scale)
                 => call.rec.bladeHeight > 0
           /\ (call.u.uBladeWidthMin > 0 /\ call.u.uBladeRandomness[2] < Scale)
                 => call.rec.bladeWidth > 0
           /\ (call.u.uBendAmountMin > 0 /\ call.u.uBladeRandomness[3] < Scale)
                 => call.rec.bladeBend > 0

C16_Witness ==
    /\ Done("computeFn")
    /\ MinBelowMax
    /\ call.u.uBendAmountMin = 0
    /\ call.u.uBendAmountMax = 0
    /\ call.u.uBladeRandomness = <<900, 900, 900>>
    /\ call.rec.bladeHeight > 0
    /\ call.rec.bladeWidth > 0
    /\ call.rec.bladeBend = 0

-----------------------------------------------------------------------------
(* C17: the cell returned by the clump query *)

\* worldXZ / clumpSize of the call, and its floor
QueryCell ==
    <<Div(call.worldXZ[1], call.u.uClumpSize), Div(call.worldXZ[2], call.u.uClumpSize)>>
QueryBaseCell == <<Floor(QueryCell[1]), Floor(QueryCell[2])>>

\* the lattice cells at most k cells away from b in each direction
Block(b, k) == {<<b[1] + i * Scale, b[2] + j * Scale>> : i \in -k..k, j \in -k..k}

\* a seed outside Block(QueryBaseCell, 2) is more than 2 cells away from the
\* position and the seed of QueryBaseCell less than sqrt(2): the nearest seed
\* among all lattice cells is the nearest seed of this block
AllCells == Block(QueryBaseCell, 2)

\* cell n is visited before cell m by the two loops (j outer, i inner)
VisitedBefore(n, m) == n[2] < m[2] \/ (n[2] = m[2] /\ n[1] < m[1])

\* C17 as stated: for every query position the cellId returned is the lattice
\* cell whose jittered seed is nearest to the position among all lattice
\* cells.
C17_AsStated ==
    Done("getClumpInfo")
        => \A n \in AllCells :
              SeedDist2(QueryCell, call.cellId) <= SeedDist2(QueryCell, n)

\* C17, amended: the cellId returned is the cell whose jittered seed is
\* nearest to the position among the nine cells of the 3x3 neighbourhood of
\* the cell containing the position, the first of them in the order of the
\* search when several are equally near; it is the nearest among all lattice
\* cells whenever that seed is at most one cell away from the position.
C17_NearestOfNine ==
    Done("getClumpInfo")
        => /\ call.cellId \in Block(QueryBaseCell, 1)
           /\ \A n \in Block(QueryBaseCell, 1) :
                 /\ SeedDist2(QueryCell, call.cellId) <= SeedDist2(QueryCell, n)
                 /\ VisitedBefore(n, call.cellId)
                       => SeedDist2(QueryCell, call.cellId) < SeedDist2(QueryCell, n)
           /\ SeedDist2(QueryCell, call.cellId) <= Scale * Scale
                 => \A n \in AllCells :
                       SeedDist2(QueryCell, call.cellId) <= SeedDist2(QueryCell, n)

\* a position whose nearest seed lies two cells above its own cell
C17_Witness ==
    /\ Done("getClumpInfo")
    /\ QueryCell = <<-3170, 7990>>
    /\ call.cellId \in Block(QueryBaseCell, 1)
    /\ SeedDist2(QueryCell, <<-4000, 9000>>) < SeedDist2(QueryCell, call.cellId)

-----------------------------------------------------------------------------
(* C18: distance of a root position from its grid point *)

\* (i / gridSize - 0.5) * patchSize
GridPoint(i) == ((i * Scale) \div call.gridSize - 500) * call.patchSize

\* the distance of the root position from its grid point, on each axis
JitterOf == <<Abs(call.pos[1] - GridPoint(call.x)), Abs(call.pos[3] - GridPoint(call.z))>>

\* C18 as stated: for every gridSize and patchSize of the controls, the root
\* position differs from its grid point by at most 10% of the cell spacing
\* patchSize / gridSize on each axis.
C18_AsStated ==
    Done("PositionOf")
        => /\ JitterOf[1] * 10 * call.gridSize <= call.patchSize * Scale
           /\ JitterOf[2] * 10 * call.gridSize <= call.patchSize * Scale

\* C18, amended: for every gridSize and patchSize of the controls, the root
\* position differs from its grid point by at most 0.1 world units on each
\* axis, whatever the cell spacing.
C18_JitterAbsolute ==
    Done("PositionOf")
        => /\ JitterOf[1] <= 100
           /\ JitterOf[2] <= 100
           /\ call.pos[2] = 0

\* a root more than a whole cell away from its grid point
C18_Witness ==
    /\ Done("PositionOf")
    /\ call.gridSize = 384
    /\ call.patchSize = 20
    /\ JitterOf[1] * call.gridSize > call.patchSize * Scale
    /\ JitterOf[1] <= 100

-----------------------------------------------------------------------------
(* C19: one mesh, built for the current gridSize and patchSize *)

\* C19: once the component is mounted, after any sequence of gridSize,
\* patchSize and other parameter changes, exactly one grass mesh is in the
\* scene, and it, the position buffer, the record buffer (gridSize^2 records)
\* and the compute dispatch of the frame loop were built for the current
\* gridSize and patchSize; no mesh of a previous configuration is left.
C19_OneMeshForCurrentSize ==
    mounted
        => /\ sceneMeshes = {MeshOf(gridSize, patchSize)}
           /\ positions = PositionArray(gridSize, patchSize)
           /\ DOMAIN grassData = 0..(gridSize * gridSize - 1)
           /\ grassComputeRef = gridSize * gridSize
           /\ pc = "compute" => /\ pending \subseteq DOMAIN grassData
                                /\ DOMAIN writes = DOMAIN grassData
           /\ pc = "shade" => DOMAIN shadeReads = DOMAIN grassData

\* a frame is dispatching after the patch size and a parameter were changed
C19_Witness ==
    /\ mounted
    /\ patchSize # DEFAULT_PATCH_SIZE
    /\ gridSize > 1
    /\ params # DefaultParams
    /\ pc = "compute"
    /\ pending = DOMAIN grassData
    /\ Cardinality(sceneMeshes) = 1

-----------------------------------------------------------------------------
(* C20: configuration is last-write-wins *)

\* the uniforms that hold a parameter of the configuration
ConfigUniforms == DOMAIN createUniforms(params) \ {"uWindTime"}

\* C20: during the compute dispatch and the shading of a frame, every
\* configuration uniform holds the most recently set value of its parameter,
\* also when a gridSize or patchSize change has created the uniforms anew;
\* the stages of the frame leave them as they are.
C20_LastWriteWins ==
    (mounted /\ pc \in {"compute", "shade"})
        => /\ DOMAIN computeUniformsRef = DOMAIN createUniforms(params)
           /\ \A name \in ConfigUniforms :
                 computeUniformsRef[name] = createUniforms(params)[name]

\* the first dispatch on uniforms created by a patch size change made after
\* the wind strength was moved away from its default
C20_Witness ==
    /\ mounted
    /\ pc = "compute"
    /\ pending # {}
    /\ ~lastRun.valid
    /\ patchSize # DEFAULT_PATCH_SIZE
    /\ params.windStrength = 2000
    /\ computeUniformsRef.uWindStrength = 2000
    /\ computeUniformsRef.uWindTime = clock * Scale

-----------------------------------------------------------------------------
(* C21: the tie-break of the clump query *)

\* the cell visited at step (j, i) of the two loops, j outer and i inner
VisitedCell(j, i) == <<QueryBaseCell[1] + i * Scale, QueryBaseCell[2] + j * Scale>>

\* the squared distance of the query to the seed visited at step (j, i)
VisitedDist2(j, i) == SeedDist2(QueryCell, VisitedCell(j, i))

\* C21: the clump query returns a cell of the 3x3 neighbourhood of
\* floor(worldXZ / clumpSize) whose seed has minimal squared distance to the
\* query among the nine; of several cells at the same minimal squared
\* distance the one visited first (outer loop j = -1..1, inner loop
\* i = -1..1) is returned.  The distance returned is that of this seed.
C21_FirstOfTheNearest ==
    Done("getClumpInfo")
        => \E j \in -1..1, i \in -1..1 :
              /\ call.cellId = VisitedCell(j, i)
              /\ call.distToCenter = Mul(ISqrt(VisitedDist2(j, i)), call.u.uClumpSize)
              /\ \A jj \in -1..1, ii \in -1..1 :
                    IF jj < j \/ (jj = j /\ ii < i)
                    THEN VisitedDist2(jj, ii) > VisitedDist2(j, i)
                    ELSE VisitedDist2(jj, ii) >= VisitedDist2(j, i)

\* a query at exactly the same squared distance from the seeds of two cells,
\* both nearer than the other seven
C21_Witness ==
    /\ Done("getClumpInfo")
    /\ QueryCell = <<-260, -2140>>
    /\ VisitedDist2(0, 0) = VisitedDist2(1, 1)
    /\ \A j \in -1..1, i \in -1..1 : VisitedDist2(j, i) >= VisitedDist2(0, 0)
    /\ call.cellId = VisitedCell(0, 0)

-----------------------------------------------------------------------------
(* C22: shrinking before the cull cutoff *)

\* camera distances below d, in steps of 0.1
NearerDistances(d) == {k * 100 : k \in 0..(d \div 100)}

\* C22: blades shrink before they vanish.  A blade with perBladeHash h in
\* (0, 1) and clump presence p > 0 that has vanished at some camera distance
\* (finalPresence 0) had, at a smaller distance, a finalPresence strictly
\* between 0 and p.
C22_ShrinkThenVanish ==
    (/\ Done("main")
     /\ call.vu.uCullParams[1] < call.vu.uCullParams[2]
     /\ 0 < call.perBladeHash01 /\ call.perBladeHash01 < Scale
     /\ call.presence > 0
     /\ call.finalPresence = 0)
        => \E d \in NearerDistances(call.dist) :
              LET before == culling(call.presence, call.perBladeHash01,
                                    call.vu.uCullParams, d, 0).finalPresence
              IN  0 < before /\ before < call.presence

-----------------------------------------------------------------------------
(* C23: the LOD fold is a hard cutover *)

\* the vertex row whose uv.y is shapeT
RowOf(shapeT) == CHOOSE r \in 0..BLADE_SEGMENTS : RowT(r) = shapeT

\* C23: for every vertex row r in 0..14 and every camera distance that gives
\* a LOD weight, the position parameter is r/14 when the LOD weight is below
\* 0.5 and 2*floor(r/2)/14 when it is 0.5 or more, never a value in between:
\* even rows stay, an odd row r moves to row r - 1.
C23_FoldIsDiscrete ==
    (Done("calculateLODPositionT") /\ call.lodWeight # NaN)
        => LET r == RowOf(call.shapeT)
           IN  /\ call.lodWeight < Scale \div 2 => call.positionT = RowT(r)
               /\ call.lodWeight >= Scale \div 2
                     => call.positionT = RowT(IF r % 2 = 0 THEN r ELSE r - 1)

\* an odd row under a LOD weight between 0.5 and 1
C23_Witness ==
    /\ Done("calculateLODPositionT")
    /\ prior = NoCall
    /\ RowOf(call.shapeT) % 2 = 1
    /\ call.lodWeight > Scale \div 2
    /\ call.lodWeight < Scale
    /\ call.positionT = RowT(RowOf(call.shapeT) - 1)

-----------------------------------------------------------------------------
(* C24: the facing rotation turns the whole frame *)

\* the facing angle of the vertex of call
FacingAngle == Mul(call.facingAngle01, TwoPi)

\* C24: the shaping stage rotates the tangent, the side and the normal about
\* the vertical axis by the same facing angle, so the frame handed to slope
\* alignment and lighting is the built frame rotated as a whole.
C24_FrameRotatedAsAWhole ==
    (Done("main") /\ call.frames.tbn.normal # NaN3)
        => /\ call.frames.facing.tangent
                 = Unit3(RotateXZ(call.frames.tbn.tangent, FacingAngle))
           /\ call.frames.facing.side
                 = Unit3(RotateXZ(call.frames.tbn.side, FacingAngle))
           /\ call.frames.facing.normal
                 = Unit3(RotateXZ(call.frames.tbn.normal, FacingAngle))

-----------------------------------------------------------------------------
(* C25: the reference axis of the frame *)

\* C25: when the Bezier tangent is parallel to the reference axis (0,0,1)
\* the frame is built from another reference axis, so the side of a vertex
\* with a tangent is never the normalised zero vector.
C25_SideNeverDegenerate ==
    (Done("main") /\ call.frames.tbn.tangent # NaN3)
        => call.frames.tbn.side # NaN3

-----------------------------------------------------------------------------
(* C26: slope alignment *)

\* cross(up, terrainNormal) at the base of the blade of call
SlopeAxis == Cross(<<0, Scale, 0>>, call.terrain.normal)

\* v turned about the normalised slope axis by the angle between world-up
\* and the terrain normal
Sloped(v) ==
    rotateAxis(v, Normalize3(SlopeAxis), call.terrain.normal[2],
               Sqrt(Scale - Mul(call.terrain.normal[2], call.terrain.normal[2])))

\* posObj without the translation to the blade root on the terrain
AlignedLpos ==
    Vec3Add(call.posObj, <<-call.instanceOffset[1],
                            -call.instanceOffset[2] - call.terrain.height,
                            -call.instanceOffset[3]>>)

\* C26: when cross(up, terrainNormal) has length <= 0.001 slope alignment
\* leaves the local position, the tangent, the side and the normal as they
\* are; otherwise all four are rotated by the same angle about the same
\* normalised axis.
C26_SlopeAlignment ==
    (Done("main") /\ call.lpos # NaN3)
        => IF Length3(SlopeAxis) <= 1
           THEN /\ AlignedLpos = call.lpos
                /\ call.frames.out = call.frames.facing
           ELSE /\ AlignedLpos = Sloped(call.lpos)
                /\ call.frames.out.tangent = Sloped(call.frames.facing.tangent)
                /\ call.frames.out.side = Sloped(call.frames.facing.side)
                /\ call.frames.out.normal = Sloped(call.frames.facing.normal)

\* a vertex off the spine of a blade on the slope, and what alignment made
\* of it
C26_Witness ==
    /\ Done("main")
    /\ call.lpos # NaN3
    /\ call.terrain.normal = <<600, 800, 0>>
    /\ Length3(SlopeAxis) = 600
    /\ AlignedLpos # call.lpos
    /\ call.frames.out.tangent # call.frames.facing.tangent
    /\ call.frames.out.side # call.frames.facing.side

-----------------------------------------------------------------------------
(* C27: the blade type always selects a profile *)

\* the three control point profiles: p1 and p2 as fractions of height and bend
Profile(hy1, bz1, hy2, bz2) ==
    <<<<0, Mul(call.height, hy1), Mul(call.bend, bz1)>>,
      <<0, Mul(call.height, hy2), Mul(call.bend, bz2)>>>>
Profiles ==
    <<Profile(400, 500, 750, 700), Profile(350, 600, 700, 800),
      Profile(300, 700, 650, Scale)>>

\* C27: for every stored type trend in [0, 1], 1.0 with floor(typeTrend * 3)
\* = 3 included, exactly one of the three profiles is selected: the first
\* for floor value 0, the second for 1 and the third for every other value.
C27_TypeSelectionTotal ==
    Done("getBezierControlPoints")
        => /\ call.discreteType \in {0, Scale, 2 * Scale, 3 * Scale}
           /\ <<call.p[1], call.p[2]>>
                 = Profiles[IF call.discreteType = 0 THEN 1
                            ELSE IF call.discreteType = Scale THEN 2 ELSE 3]

\* the type trend 1.0, whose floor value 3 names no type
C27_Witness ==
    /\ Done("getBezierControlPoints")
    /\ call.bladeType = Scale
    /\ call.discreteType = 3 * Scale
    /\ call.bend > 0
    /\ <<call.p[1], call.p[2]>> = Profiles[3]
    /\ Profiles[3] # Profiles[1]
    /\ Profiles[3] # Profiles[2]

-----------------------------------------------------------------------------
(* C28: the facing angle across the two stages *)

\* the facing angle the synthesis stage computed for the blade of call,
\* before it was encoded
ComputedFacingAngle ==
    applyWindFacing(call.baseAngle, safeNormalizeTSL(call.u.uWindDir),
                    call.rec.windStrength01, call.u)

\* what the approximations of sin, cos and atan leave of an angle of 0
AngleTolerance == 30

\* C28: the angle the shaping stage decodes from facingAngle01 equals, modulo
\* 2*pi, the facing angle the synthesis stage computed before encoding it.
C28_AngleRoundTrip ==
    Done("computeFn")
        => Abs(normalizeAngle(decodeFacingAngle(call.rec.facingAngle01)
                                 - ComputedFacingAngle)) <= AngleTolerance

-----------------------------------------------------------------------------
(* C29: culling grows with the camera distance *)

\* the blade of call, present in its clump, under a cull range with
\* cullStart < cullEnd and a hash below 1
CullableBlade ==
    /\ Done("main")
    /\ call.vu.uCullParams[1] < call.vu.uCullParams[2]
    /\ call.perBladeHash01 < Scale
    /\ call.presence > 0

\* finalPresence of the blade of call at camera distance d
PresenceAt(d) ==
    culling(call.presence, call.perBladeHash01, call.vu.uCullParams, d, 0).finalPresence

\* C29: for a fixed perBladeHash in [0,1) and cullStart < cullEnd no blade is
\* culled at a camera distance <= cullStart, and a blade culled at distance d
\* is culled at every distance d' >= d.
C29_CullingMonotone ==
    CullableBlade
        => /\ call.dist <= call.vu.uCullParams[1] => call.finalPresence = call.presence
           /\ call.finalPresence = 0
                 => \A d \in CullDistances : d >= call.dist => PresenceAt(d) = 0

\* a blade culled inside the cull range that was still drawn one unit nearer
C29_Witness ==
    /\ CullableBlade
    /\ call.perBladeHash01 = 500
    /\ call.dist > call.vu.uCullParams[1]
    /\ call.dist < call.vu.uCullParams[2]
    /\ call.finalPresence = 0
    /\ PresenceAt(call.dist - Scale) = call.presence

-----------------------------------------------------------------------------
(* C30: a blade reads the record computed from its own root *)

\* C30: for every instance (x, z) of a gridSize x gridSize patch the record
\* fetched at texel (instanceId mod gridSize, floor(instanceId / gridSize))
\* was computed from the position texel that holds the root position of the
\* same instance: the position texture and the instanceOffset attribute hold
\* the same position for every instanceId.
C30_RecordOfOwnRoot ==
    Done("texelFetch")
        => /\ call.texelCoord[1] \in 0..(call.gridSize - 1)
           /\ call.texelCoord[2] \in 0..(call.gridSize - 1)
           /\ <<call.posData[1], call.posData[2], call.posData[3]>> = call.instanceOffset

\* an instance off the diagonal of the largest grid: the texel with the two
\* coordinates exchanged holds another root
C30_Witness ==
    /\ Done("texelFetch")
    /\ call.gridSize = 512
    /\ call.x = 511
    /\ call.z = 3
    /\ call.texelCoord = <<3, 511>>
    /\ <<call.posData[1], call.posData[2], call.posData[3]>> = call.instanceOffset
    /\ positionTexel(<<511, 3>>, call.gridSize, call.patchSize) # call.posData

====
